---- MODULE Spec2Model ----
(***************************************************************************)
(* Model of the AxlesAI voice agent: the entrypoint coroutine of a call    *)
(* (agent/agent.py), the tools of AxlesAgent, and the Supabase-backed      *)
(* helpers of agent/tools.py.  One entrypoint coroutine runs per call;     *)
(* calls are served by separate jobs, so the store sees the requests of    *)
(* different calls in any order.  Every request to the store or to the     *)
(* media platform is one step and may fail.                                *)
(***************************************************************************)
EXTENDS Integers, Sequences, FiniteSets, TLC

\* ------------------------------------------------------------------ bounds
NumSessions == 2
MaxDuration == 121
MaxLeads == 1
MaxEndSignals == 2
MaxAttempts == 2
MaxNow == 2
MaxTransfers == 2

Sessions == 1..NumSessions

\* Python's None, for values that are strings.
None == "None"
\* Python's None for an id (call_log_id, lead_id, egress_id); ids count from 1.
NoId == 0
\* Python's None for a duration (stop_recording's `duration = None`).
NoDuration == -1
\* Python's None for a number that is a sequence of characters otherwise.
NoNumber == <<"None">>
\* Python's None for a time (a staff row without locked_until); the clock
\* starts at 1.
NoTime == 0

\* Call durations in seconds, around the minute and the 5 second boundaries.
Durations == {0, 1, 5, 6, 59, 60, 61, 120, MaxDuration}

\* ------------------------------------------------------ number helpers
\* A dialed number is a sequence of characters; <<>> is None or "".
StartsWith(str, prefix) ==
    /\ Len(str) >= Len(prefix)
    /\ SubSeq(str, 1, Len(prefix)) = prefix

Contains(str, ch) == \E i \in 1..Len(str) : str[i] = ch

\* str.split(ch)[0]
BeforeFirst(str, ch) ==
    IF Contains(str, ch)
    THEN LET i == CHOOSE k \in 1..Len(str) :
                      /\ str[k] = ch
                      /\ \A j \in 1..(k - 1) : str[j] # ch
         IN  SubSeq(str, 1, i - 1)
    ELSE str

RECURSIVE LStrip(_)
LStrip(str) ==
    IF str # <<>> /\ Head(str) = " " THEN LStrip(Tail(str)) ELSE str

RECURSIVE RStrip(_)
RStrip(str) ==
    IF str # <<>> /\ str[Len(str)] = " "
    THEN RStrip(SubSeq(str, 1, Len(str) - 1))
    ELSE str

\* str.strip()
Strip(str) == RStrip(LStrip(str))

SipPrefix == <<"s", "i", "p", ":">>

\* A variant of CleanNumber that keeps what follows the number.
CleanNumberKeepsHost(phone_number) ==
    LET stripped == Strip(phone_number)
    IN  IF StartsWith(stripped, SipPrefix)
        THEN SubSeq(stripped, 5, Len(stripped))
        ELSE stripped

\* tools.py 90-95: clean_number
CleanNumber(phone_number) ==
    LET stripped == Strip(phone_number)
        no_scheme == IF StartsWith(stripped, SipPrefix)
                     THEN SubSeq(stripped, 5, Len(stripped))
                     ELSE stripped
    IN  BeforeFirst(no_scheme, "@")

NationalLen == 11

\* tools.py 111-117: alt_number; <<>> is None
AltNumber(clean_number) ==
    IF StartsWith(clean_number, <<"+", "1">>)
    THEN Tail(clean_number)
    ELSE IF StartsWith(clean_number, <<"1">>) /\ Len(clean_number) = NationalLen
         THEN <<"+">> \o clean_number
         ELSE <<>>

\* ------------------------------------------------- rows of the store
VoiceAgentIds == {"va1", "va2", "va3"}

\* dealer_voice_agents: the rows a call can resolve to (minutes_used is the
\* variable of that name).
dealer_voice_agents ==
    [ va1 |-> [id |-> "va1", dealer_id |-> "dA", is_active |-> TRUE,
               phone_number |-> <<"+","1","5","5","5","1","2","3","4","5","6","7">>],
      va2 |-> [id |-> "va2", dealer_id |-> "dB", is_active |-> TRUE,
               phone_number |-> <<"1","5","5","5","7","6","5","4","3","2","1">>],
      va3 |-> [id |-> "va3", dealer_id |-> "dC", is_active |-> FALSE,
               phone_number |-> <<"+","1","5","5","5","0","0","0","0","0","0","0">>] ]

\* minutes_used of each row before the calls of the model.
MinutesUsedInit == [va1 |-> 10, va2 |-> 0, va3 |-> 0]

\* A variant of ActiveAgentsByPhone without .eq("is_active", True).
AgentsByPhone(number) ==
    {id \in VoiceAgentIds : dealer_voice_agents[id].phone_number = number}

\* .eq("phone_number", n).eq("is_active", True)
ActiveAgentsByPhone(number) ==
    {id \in VoiceAgentIds : /\ dealer_voice_agents[id].phone_number = number
                            /\ dealer_voice_agents[id].is_active}

\* .single().execute(): the one row; "Raise" on several rows; on no row the
\* client either answers without data (None) or raises, as `strict` says.
SingleRow(rows, strict) ==
    IF Cardinality(rows) = 1 THEN CHOOSE r \in rows : TRUE
    ELSE IF rows = {} /\ ~strict THEN None
    ELSE "Raise"

\* How the store answers one resolution: each of the two requests may raise.
StoreAnswers == [down1 : BOOLEAN, down2 : BOOLEAN, strict : BOOLEAN]

\* A variant of get_dealer_voice_agent_by_phone without its try/except: what
\* the store raises leaves the function ("Raise").
get_dealer_voice_agent_unguarded(phone_number, db) ==
    IF db.down1 THEN "Raise"
    ELSE LET clean_number == CleanNumber(phone_number)
             first == SingleRow(ActiveAgentsByPhone(clean_number), db.strict)
             alt_number == AltNumber(clean_number)
         IN  IF first # None THEN first
             ELSE IF alt_number # <<>>
                  THEN IF db.down2 THEN "Raise"
                       ELSE SingleRow(ActiveAgentsByPhone(alt_number), db.strict)
                  ELSE None

\* tools.py 78-138: the id of the dealer voice agent row, or None
get_dealer_voice_agent_by_phone(phone_number, db) ==
    IF db.down1 THEN None
    ELSE LET clean_number == CleanNumber(phone_number)
             first == SingleRow(ActiveAgentsByPhone(clean_number), db.strict)
             alt_number == AltNumber(clean_number)
         IN  IF first = "Raise" THEN None
             ELSE IF first # None THEN first
             ELSE IF alt_number # <<>>
                  THEN IF db.down2 THEN None
                       ELSE LET second == SingleRow(ActiveAgentsByPhone(alt_number),
                                                    db.strict)
                            IN  IF second = "Raise" THEN None ELSE second
                  ELSE None

\* listings: the owner (user_id) of each listing.
ListingIds == {"L1", "L2"}
listings == [L1 |-> [user_id |-> "dA"], L2 |-> [user_id |-> "dB"]]

\* ------------------------------------------------- inputs of a call
PhoneA == <<"+","1","5","5","5","1","2","3","4","5","6","7">>
PhoneAAlt == <<"1","5","5","5","1","2","3","4","5","6","7">>
PhoneB == <<"1","5","5","5","7","6","5","4","3","2","1">>
PhoneBAlt == <<"+","1","5","5","5","7","6","5","4","3","2","1">>
PhoneInactive == <<"+","1","5","5","5","0","0","0","0","0","0","0">>
PhoneUnknown == <<"+","1","5","5","5","9","9","9","9","9","9","9">>
Sip(number) == SipPrefix \o number \o <<"@", "h">>

\* can_transfer_calls and transfer_phone_number of a dealer voice agent row.
\* The two columns bear on nothing but transfer_call, so a call draws them
\* when it builds its agent; <<>> is the empty string.
TransferNumber == <<"+","1","5","5","5","2","2","2","0","0","0","0">>
TransferNumberBad == <<"5","5","5","-","0","1">>
NoTransfer == [can_transfer |-> FALSE, transfer_number |-> NoNumber]
TransferSettings ==
    [ can_transfer : BOOLEAN,
      transfer_number : {NoNumber, <<>>, TransferNumber, TransferNumberBad} ]

\* What the platform and the caller supply to one call; `again` says whether
\* capture_lead is invoked once more after the call has stored MaxLeads leads.  Calls that run
\* concurrently draw from the narrow sets, a call studied alone from the wide.
NarrowInputs ==
    [ phones    |-> {"c1"},
      dialed    |-> {<<>>, PhoneA},
      stores    |-> {[down1 |-> FALSE, down2 |-> FALSE, strict |-> FALSE]},
      durations |-> {0, 61},
      names     |-> {"Jane"},
      listing   |-> {None},
      intents   |-> {None},
      equipment |-> {None},
      outcomes  |-> {"ok", "raise"},
      created   |-> {TRUE},
      recorded  |-> {TRUE},
      stops     |-> {[url |-> None, duration |-> NoDuration],
                     [url |-> "url", duration |-> 6]},
      staff_names |-> {<<"j","o">>},
      pins      |-> {"1234", "9999"},
      query_types |-> {"inventory"},
      locks     |-> {NoTime},
      again     |-> {FALSE},
      transfers |-> {NoTransfer},
      trunks    |-> {TRUE},
      dials     |-> {"ok"} ]

WideInputs ==
    [ phones    |-> {None, "c1"},
      dialed    |-> {<<>>, PhoneA, PhoneAAlt, Sip(PhoneA), PhoneB, PhoneBAlt,
                     PhoneInactive, PhoneUnknown},
      stores    |-> StoreAnswers,
      durations |-> Durations,
      names     |-> {"Jane"},
      listing   |-> {None, "L1", "L2", "Lx"},
      intents   |-> {None, "buy"},
      equipment |-> {None, "trailer"},
      outcomes  |-> {"ok", "no_data", "raise"},
      created   |-> BOOLEAN,
      recorded  |-> BOOLEAN,
      stops     |-> [url : {None, "url"}, duration : Durations \cup {NoDuration}],
      staff_names |-> {<<>>, <<"j","o">>, <<"J","O","H","N">>, <<"a","n","n">>},
      pins      |-> {"1234", "9999", "5555"},
      query_types |-> {"inventory", "payroll"},
      locks     |-> {NoTime, MaxNow},
      again     |-> {FALSE},
      transfers |-> {NoTransfer},
      trunks    |-> {TRUE},
      dials     |-> {"ok"} ]

\* ---------------------------------------------------------------- state
VARIABLES
    pc,                     \* where each call's entrypoint coroutine stands
    caller_phone,           \* entrypoint local, per call
    dealer_id,              \* entrypoint local, per call
    dealer_voice_agent_id,  \* entrypoint local, per call
    active_calls,           \* the module-level dict, keyed by room name
    agent,                  \* the AxlesAgent of each call
    fin,                    \* the locals of the entrypoint's finally block
    recording_enabled,      \* SUPABASE_URL and SUPABASE_SERVICE_ROLE_KEY are set
    minutes_used,           \* dealer_voice_agents.minutes_used, per row
    leads,                  \* the leads table, keyed by id
    call_logs,              \* the call_logs table, keyed by id
    effects,                \* history: what each call's finalization has done
    end_signals,            \* history: end signals the platform sent per call
    captured,               \* history: leads each call has inserted
    last_tool,              \* history: the last answer of a tool of each call
    lookup,                 \* history: one resolution of a number, on its own
    answer,                 \* history: one internal query, asked by two staff
    dealer_staff,           \* the counters and times of the dealer_staff rows
    access_logs,            \* the dealer_staff_access_logs table
    now,                    \* the clock
    tool,                   \* the tool invocation each call has in flight
    reply,                  \* history: the last answer of a tool, per call
    attempts                \* history: staff tool invocations per call

callVars == <<pc, caller_phone, dealer_id, dealer_voice_agent_id, active_calls,
              agent, fin, recording_enabled>>
storeVars == <<minutes_used, leads, call_logs>>
historyVars == <<effects, end_signals, captured, last_tool, lookup, answer>>
authVars == <<dealer_staff, access_logs, now, tool, reply, attempts>>

\* A variant of HasStaffAuthTools that gives every agent the staff tools.
HasStaffAuthToolsAlways(dealer) == TRUE

\* agent.py 80: StaffAuthTools(dealer_id=dealer_id) if dealer_id else None
HasStaffAuthTools(dealer) == dealer # None

AgentBlank ==
    [ captured_lead_id |-> NoId, caller_name |-> None, interest |-> None,
      equipment_type |-> None, intent |-> None,
      is_staff_authenticated |-> FALSE,
      staff_auth_tools |-> FALSE,       \* whether staff_auth_tools is not None
      authenticated_staff |-> None,     \* staff_auth_tools.authenticated_staff
      can_transfer |-> FALSE, transfer_number |-> NoNumber ]

FinBlank ==
    [ call_duration |-> 0, call_minutes |-> 0, recorded_duration |-> NoDuration,
      recording_url |-> None,
      egress_id |-> NoId, lead_id |-> NoId, call_log_id |-> NoId,
      dealer_voice_agent_id |-> None, minutes_read |-> 0 ]

EffectsBlank ==
    [ start_recording |-> 0, stop_recording |-> 0, increment_calls |-> 0,
      minutes_writes |-> 0,
      minutes_billed |-> 0, lead_updates |-> 0, log_updates |-> 0,
      transcriptions |-> 0, job |-> "none" ]

\* What the history keeps of the answer of a tool: its arguments, how the
\* backend answered, the string the tool returned (None while it has returned
\* none), whether an exception left the tool, and the transfer legs the call
\* has created.
ToolBlank ==
    [ name |-> "none", listing_id |-> None, backend |-> None, lead_id |-> NoId,
      spoken |-> None, escaped |-> FALSE, legs |-> 0 ]

\* A resolution of a number: the number, how the store answers, and, once
\* get_dealer_voice_agent_by_phone has returned, its result.
LookupBlank ==
    [ phone_number |-> <<>>, db |-> [down1 |-> FALSE, down2 |-> FALSE,
                                     strict |-> FALSE],
      result |-> None, done |-> FALSE ]

\* An internal query on its own: the listings of the dealer, the permission
\* flags of two staff members who ask the same query, the query, how the
\* store answers single() on no row, and, once answered, what each is told.
AnswerBlank ==
    [ rows |-> <<>>,
      staff1 |-> [can_view_costs |-> FALSE, can_view_margins |-> FALSE],
      staff2 |-> [can_view_costs |-> FALSE, can_view_margins |-> FALSE],
      query_type |-> None, query |-> None, strict |-> FALSE,
      result1 |-> [message |-> None, lines |-> <<>>],
      result2 |-> [message |-> None, lines |-> <<>>],
      done |-> FALSE ]

Max(a, b) == IF a >= b THEN a ELSE b

\* A variant of CallMinutes that rounds down.
CallMinutesRoundedDown(call_duration) == Max(1, call_duration \div 60)

\* agent.py 647 and 662: call_minutes
CallMinutes(call_duration) == Max(1, (call_duration + 59) \div 60)

\* del d[key]
Without(d, key) == [k \in DOMAIN d \ {key} |-> d[k]]

\* ---------------------------------------------------------------- Init
CallInit ==
    /\ pc = [s \in Sessions |-> "idle"]
    /\ caller_phone = [s \in Sessions |-> None]
    /\ dealer_id = [s \in Sessions |-> None]
    /\ dealer_voice_agent_id = [s \in Sessions |-> None]
    /\ active_calls = <<>>
    /\ agent = [s \in Sessions |-> AgentBlank]
    /\ fin = [s \in Sessions |-> FinBlank]
    /\ recording_enabled \in BOOLEAN
    /\ minutes_used = MinutesUsedInit
    /\ leads = <<>>
    /\ call_logs = <<>>
    /\ effects = [s \in Sessions |-> EffectsBlank]
    /\ end_signals = [s \in Sessions |-> 0]
    /\ captured = [s \in Sessions |-> 0]
    /\ last_tool = [s \in Sessions |-> ToolBlank]

\* A variant of Start that looks at is_active only after it has opened the
\* entry of the call in active_calls.
StartReturnsLate(s, in) ==
    /\ pc[s] = "idle"
    /\ \A t \in Sessions : t < s => pc[t] # "idle"
    /\ \E phone \in in.phones, called_number \in in.dialed, db \in in.stores,
          global_active \in BOOLEAN, connected \in BOOLEAN :
         LET dealer_agent ==
                 IF called_number # <<>>
                 THEN get_dealer_voice_agent_by_phone(called_number, db)
                 ELSE None
             is_active ==
                 IF dealer_agent \in VoiceAgentIds
                 THEN dealer_voice_agents[dealer_agent].is_active
                 ELSE global_active
         IN  IF ~connected
             THEN \* ctx.connect() raises (line 501)
                  /\ pc' = [pc EXCEPT ![s] = "unconnected"]
                  /\ UNCHANGED <<caller_phone, dealer_voice_agent_id, dealer_id>>
             ELSE IF dealer_agent = "Raise"
             THEN \* nothing in entrypoint catches what line 518 raises
                  /\ pc' = [pc EXCEPT ![s] = "crashed"]
                  /\ UNCHANGED <<caller_phone, dealer_voice_agent_id, dealer_id>>
             ELSE IF is_active
             THEN /\ pc' = [pc EXCEPT ![s] = "create_call_log"]
                  /\ caller_phone' = [caller_phone EXCEPT ![s] = phone]
                  /\ dealer_voice_agent_id' =
                         [dealer_voice_agent_id EXCEPT ![s] = dealer_agent]
                  /\ dealer_id' =
                         [dealer_id EXCEPT ![s] =
                             IF dealer_agent # None
                             THEN dealer_voice_agents[dealer_agent].dealer_id
                             ELSE None]
             ELSE /\ pc' = [pc EXCEPT ![s] = "returned"]
                  /\ UNCHANGED <<caller_phone, dealer_voice_agent_id, dealer_id>>
    /\ active_calls' =
           IF pc'[s] = "returned"
           THEN (s :> [ lead_id |-> NoId, egress_id |-> NoId,
                        call_log_id |-> NoId, caller_phone |-> None,
                        dealer_id |-> None, dealer_voice_agent_id |-> None,
                        transferred |-> FALSE ]) @@ active_calls
           ELSE active_calls
    /\ UNCHANGED <<agent, fin, recording_enabled>>
    /\ UNCHANGED <<storeVars, historyVars>>
    /\ UNCHANGED authVars

\* ------------------------------------------------- the start of a call
\* agent.py 494-579: connect, resolve the dialed number, pick the settings.
\* Calls are interchangeable, so they start in the order of their numbers.
Start(s, in) ==
    /\ pc[s] = "idle"
    /\ \A t \in Sessions : t < s => pc[t] # "idle"
    /\ \E phone \in in.phones, called_number \in in.dialed, db \in in.stores,
          global_active \in BOOLEAN, connected \in BOOLEAN :
         LET dealer_agent ==
                 IF called_number # <<>>
                 THEN get_dealer_voice_agent_by_phone(called_number, db)
                 ELSE None
             is_active ==
                 IF dealer_agent \in VoiceAgentIds
                 THEN dealer_voice_agents[dealer_agent].is_active
                 ELSE global_active
         IN  IF ~connected
             THEN \* ctx.connect() raises (line 501)
                  /\ pc' = [pc EXCEPT ![s] = "unconnected"]
                  /\ UNCHANGED <<caller_phone, dealer_voice_agent_id, dealer_id>>
             ELSE IF dealer_agent = "Raise"
             THEN \* nothing in entrypoint catches what line 518 raises
                  /\ pc' = [pc EXCEPT ![s] = "crashed"]
                  /\ UNCHANGED <<caller_phone, dealer_voice_agent_id, dealer_id>>
             ELSE IF is_active
             THEN /\ pc' = [pc EXCEPT ![s] = "create_call_log"]
                  /\ caller_phone' = [caller_phone EXCEPT ![s] = phone]
                  /\ dealer_voice_agent_id' =
                         [dealer_voice_agent_id EXCEPT ![s] = dealer_agent]
                  /\ dealer_id' =
                         [dealer_id EXCEPT ![s] =
                             IF dealer_agent # None
                             THEN dealer_voice_agents[dealer_agent].dealer_id
                             ELSE None]
             ELSE /\ pc' = [pc EXCEPT ![s] = "returned"]
                  /\ UNCHANGED <<caller_phone, dealer_voice_agent_id, dealer_id>>
    /\ UNCHANGED <<active_calls, agent, fin, recording_enabled>>
    /\ UNCHANGED <<storeVars, historyVars>>
    /\ UNCHANGED authVars

\* A variant of CreateCallLog in which a call log that cannot be created ends
\* the call.
CreateCallLogBlocks(s, in) ==
    /\ pc[s] = "create_call_log"
    /\ \E inserted \in in.created :
         IF caller_phone[s] # None /\ ~inserted
         THEN /\ pc' = [pc EXCEPT ![s] = "returned"]
              /\ UNCHANGED <<call_logs, active_calls>>
         ELSE /\ call_logs' =
                    IF caller_phone[s] # None
                    THEN call_logs @@
                         (s :> [ status |-> "in_progress",
                                 caller_phone |-> caller_phone[s],
                                 dealer_id |-> dealer_id[s],
                                 dealer_voice_agent_id |-> dealer_voice_agent_id[s],
                                 caller_name |-> None, duration_seconds |-> NoDuration,
                                 recording_url |-> None, interest |-> None,
                                 equipment_type |-> None, intent |-> None,
                                 lead_id |-> NoId ])
                    ELSE call_logs
              /\ active_calls' =
                    (s :> [ lead_id |-> NoId, egress_id |-> NoId,
                            call_log_id |-> IF caller_phone[s] # None THEN s
                                            ELSE NoId,
                            caller_phone |-> caller_phone[s],
                            dealer_id |-> dealer_id[s],
                            dealer_voice_agent_id |-> dealer_voice_agent_id[s],
                            transferred |-> FALSE ])
                    @@ active_calls
              /\ pc' = [pc EXCEPT ![s] = "start_recording"]
    /\ UNCHANGED <<caller_phone, dealer_id, dealer_voice_agent_id, agent, fin,
                   recording_enabled, minutes_used, leads, historyVars>>
    /\ UNCHANGED authVars

\* tools.py 854-894, agent.py 581-599: the call log row, then the entry of
\* active_calls.  The id of a call's log row is the call's number.
CreateCallLog(s, in) ==
    /\ pc[s] = "create_call_log"
    /\ \E inserted \in in.created :
         LET call_log_id ==
                 IF caller_phone[s] # None /\ inserted THEN s ELSE NoId
         IN  /\ call_logs' =
                    IF call_log_id # NoId
                    THEN call_logs @@
                         (s :> [ status |-> "in_progress",
                                 caller_phone |-> caller_phone[s],
                                 dealer_id |-> dealer_id[s],
                                 dealer_voice_agent_id |-> dealer_voice_agent_id[s],
                                 caller_name |-> None, duration_seconds |-> NoDuration,
                                 recording_url |-> None, interest |-> None,
                                 equipment_type |-> None, intent |-> None,
                                 lead_id |-> NoId ])
                    ELSE call_logs
             /\ active_calls' =
                    (s :> [ lead_id |-> NoId, egress_id |-> NoId,
                            call_log_id |-> call_log_id,
                            caller_phone |-> caller_phone[s],
                            dealer_id |-> dealer_id[s],
                            dealer_voice_agent_id |-> dealer_voice_agent_id[s],
                            transferred |-> FALSE ])
                    @@ active_calls
    /\ pc' = [pc EXCEPT ![s] = "start_recording"]
    /\ UNCHANGED <<caller_phone, dealer_id, dealer_voice_agent_id, agent, fin,
                   recording_enabled, minutes_used, leads, historyVars>>
    /\ UNCHANGED authVars

\* A variant of StartRecording that asks for the egress whether or not the
\* environment has the credentials of the storage.
StartRecordingUnconditional(s, in) ==
    /\ pc[s] = "start_recording"
    /\ \E egress_id \in {IF ok THEN s ELSE NoId : ok \in in.recorded} :
           active_calls' =
               IF egress_id # NoId
               THEN [active_calls EXCEPT ![s].egress_id = egress_id]
               ELSE active_calls
    /\ effects' = [effects EXCEPT ![s].start_recording = @ + 1]
    /\ pc' = [pc EXCEPT ![s] = "session_start"]
    /\ UNCHANGED <<caller_phone, dealer_id, dealer_voice_agent_id, agent, fin,
                   recording_enabled, storeVars, end_signals, captured,
                   last_tool, lookup, answer>>
    /\ UNCHANGED authVars

\* agent.py 342-395 and 601-607: the egress id, or None when the start fails;
\* without the credentials of the storage (recording_enabled is FALSE) no
\* egress is asked for.
StartRecording(s, in) ==
    /\ pc[s] = "start_recording"
    /\ IF recording_enabled
       THEN /\ \E egress_id \in {IF ok THEN s ELSE NoId : ok \in in.recorded} :
                   active_calls' =
                       IF egress_id # NoId
                       THEN [active_calls EXCEPT ![s].egress_id = egress_id]
                       ELSE active_calls
            /\ effects' = [effects EXCEPT ![s].start_recording = @ + 1]
       ELSE UNCHANGED <<active_calls, effects>>
    /\ pc' = [pc EXCEPT ![s] = "session_start"]
    /\ UNCHANGED <<caller_phone, dealer_id, dealer_voice_agent_id, agent, fin,
                   recording_enabled, storeVars, end_signals, captured,
                   last_tool, lookup, answer>>
    /\ UNCHANGED authVars

\* agent.py 609-637: the model, the agent, the session and the greeting.  Any
\* of them may raise; the lines stand before the try, so the exception leaves
\* entrypoint.
SessionStart(s, in) ==
    /\ pc[s] = "session_start"
    /\ \E started \in BOOLEAN,
          row \in IF dealer_id[s] # None THEN in.transfers ELSE {NoTransfer} :
         IF started
         THEN /\ agent' = [agent EXCEPT ![s] =
                              [AgentBlank EXCEPT
                                  !.staff_auth_tools = HasStaffAuthTools(dealer_id[s]),
                                  !.can_transfer = row.can_transfer,
                                  !.transfer_number = row.transfer_number]]
              /\ pc' = [pc EXCEPT ![s] = "active"]
         ELSE /\ pc' = [pc EXCEPT ![s] = "crashed"]
              /\ UNCHANGED agent
    /\ UNCHANGED <<caller_phone, dealer_id, dealer_voice_agent_id, active_calls,
                   fin, recording_enabled, storeVars, historyVars>>
    /\ UNCHANGED authVars

\* --------------------------------- search_inventory, get_listing_details
MsgNoListingsDealer ==
    "I don't have any listings matching that criteria in our inventory right now. Would you like to try different filters or leave your information for a callback?"
MsgNoListings ==
    "No listings found matching your criteria. Would you like to try different filters?"
MsgFound == "I found listings:"
MsgSearchTrouble ==
    "I'm having trouble searching our inventory right now. Would you like me to take your information for a callback?"
MsgListingNotFound ==
    "I couldn't find that listing. It may no longer be available."
MsgDetails == "This is a"
MsgDetailsTrouble ==
    "I'm having trouble getting the details right now. Would you like me to take your information for a callback?"

\* A variant of SearchAnswer without the try/except of search: what the
\* store raises leaves the tool, which returns no string (None).
SearchAnswerUnguarded(line_dealer, outcome) ==
    IF outcome = "raise" THEN None
    ELSE IF outcome = "no_data"
    THEN IF line_dealer # None THEN MsgNoListingsDealer ELSE MsgNoListings
    ELSE MsgFound

\* tools.py 224-292: what search returns; the store answers with rows
\* ("ok"), with none ("no_data"), or the request or the formatting raises.
SearchAnswer(line_dealer, outcome) ==
    IF outcome = "raise" THEN MsgSearchTrouble
    ELSE IF outcome = "no_data"
    THEN IF line_dealer # None THEN MsgNoListingsDealer ELSE MsgNoListings
    ELSE MsgFound

\* tools.py 294-349: what get_details returns; single() on a listing that
\* does not exist answers without data or raises, as `strict` says.
DetailsAnswer(listing_id, outcome, strict) ==
    IF outcome = "raise" THEN MsgDetailsTrouble
    ELSE IF listing_id \notin ListingIds
    THEN IF strict THEN MsgDetailsTrouble ELSE MsgListingNotFound
    ELSE IF outcome = "no_data" THEN MsgListingNotFound
    ELSE MsgDetails

\* agent.py 90-119
SearchInventory(s, in) ==
    /\ pc[s] = "active"
    /\ \E outcome \in in.outcomes :
         LET spoken == SearchAnswer(dealer_id[s], outcome)
         IN  last_tool' = [last_tool EXCEPT ![s] =
                 [@ EXCEPT !.name = "search_inventory",
                           !.listing_id = None,
                           !.backend = outcome,
                           !.lead_id = NoId,
                           !.spoken = spoken,
                           !.escaped = (spoken = None)]]
    /\ UNCHANGED <<callVars, storeVars, effects, end_signals, captured, lookup, answer>>
    /\ UNCHANGED authVars

\* agent.py 121-129
GetListingDetails(s, in) ==
    /\ pc[s] = "active"
    /\ \E listing_id \in in.listing \ {None}, outcome \in in.outcomes,
          db \in in.stores :
         last_tool' = [last_tool EXCEPT ![s] =
             [@ EXCEPT !.name = "get_listing_details",
                       !.listing_id = listing_id,
                       !.backend = outcome,
                       !.lead_id = NoId,
                       !.spoken = DetailsAnswer(listing_id, outcome, db.strict),
                       !.escaped = FALSE]]
    /\ UNCHANGED <<callVars, storeVars, effects, end_signals, captured, lookup, answer>>
    /\ UNCHANGED authVars

\* --------------------------------------------------------- capture_lead
\* A variant of LeadOwner that never looks the listing up.
LeadOwnerLineOnly(line_dealer, listing_id, strict) == line_dealer

\* tools.py 418-428: user_id of a new lead; "Raise" when the listing lookup
\* raises (single() on no row, for a client that raises then).
LeadOwner(line_dealer, listing_id, strict) ==
    IF line_dealer # None THEN line_dealer
    ELSE IF listing_id = None THEN None
    ELSE IF listing_id \in ListingIds THEN listings[listing_id].user_id
    ELSE IF strict THEN "Raise" ELSE None

\* The id the store gives the k-th lead of call s.
LeadId(s, k) == (s - 1) * MaxLeads + k

\* tools.py 449-463: what capture_with_id returns to the caller
MsgCaptured == "I've captured your information."
MsgNotedTeam ==
    "I've noted your information. A team member will follow up with you shortly."
MsgNotedSoon ==
    "I've noted your information. Someone will be in touch with you soon."

\* agent.py 131-180 and tools.py 404-463.  The store client is synchronous, so
\* the tool runs without yielding to the call's other coroutines.
CaptureLeadBody(s, in) ==
    /\ \E name \in in.names, listing_id \in in.listing, intent \in in.intents,
          equipment_type \in in.equipment, outcome \in in.outcomes,
          db \in in.stores, again \in in.again :
         LET user_id == LeadOwner(dealer_id[s], listing_id, db.strict)
             actual_phone == IF caller_phone[s] # None
                             THEN caller_phone[s] ELSE "unknown"
             stored == outcome = "ok" /\ user_id # "Raise"
             lead_id == IF stored THEN LeadId(s, captured[s] + 1) ELSE NoId
         IN  /\ captured[s] < MaxLeads \/ (again /\ ~stored)
             /\ leads' =
                    IF stored
                    THEN (lead_id :>
                            [ buyer_name |-> name, buyer_phone |-> actual_phone,
                              message |-> "flatbed trailer", status |-> "new",
                              intent |-> intent, equipment_type |-> equipment_type,
                              listing_id |-> listing_id, user_id |-> user_id,
                              call_recording_url |-> None,
                              call_duration_seconds |-> NoDuration,
                              call_sid |-> NoId ]) @@ leads
                    ELSE leads
             /\ captured' = [captured EXCEPT ![s] = IF stored THEN @ + 1 ELSE @]
             /\ agent' = [agent EXCEPT
                    ![s].caller_name = name,
                    ![s].interest = "flatbed trailer",
                    ![s].equipment_type = equipment_type,
                    ![s].intent = intent,
                    ![s].captured_lead_id = IF lead_id # NoId THEN lead_id ELSE @]
             /\ active_calls' =
                    IF lead_id # NoId /\ s \in DOMAIN active_calls
                    THEN [active_calls EXCEPT ![s].lead_id = lead_id]
                    ELSE active_calls
             /\ last_tool' = [last_tool EXCEPT ![s] =
                    [@ EXCEPT !.name = "capture_lead",
                              !.listing_id = listing_id,
                              !.backend = outcome,
                              !.lead_id = lead_id,
                              !.spoken =
                                  IF outcome = "raise" \/ user_id = "Raise"
                                  THEN MsgNotedSoon
                                  ELSE IF outcome = "no_data" THEN MsgNotedTeam
                                  ELSE MsgCaptured,
                              !.escaped = FALSE]]
    /\ UNCHANGED <<pc, caller_phone, dealer_id, dealer_voice_agent_id, fin,
                   recording_enabled, minutes_used, call_logs, effects,
                   end_signals, lookup, answer>>
    /\ UNCHANGED authVars

\* capture_lead while the session is in conversation.
CaptureLead(s, in) ==
    /\ pc[s] = "active"
    /\ CaptureLeadBody(s, in)

\* agent.py 639-659: `except asyncio.CancelledError: pass` lets the finally
\* block run while the session, which nothing closes, still serves the
\* caller; capture_lead, which no check of the call's state guards, runs
\* while the finally block awaits stop_recording.
LateCaptureLead(s, in) ==
    /\ pc[s] = "fin_stop_recording"
    /\ fin[s].egress_id # NoId
    /\ CaptureLeadBody(s, in)

\* -------------------------------------------------------- transfer_call
DigitChars == {"0", "1", "2", "3", "4", "5", "6", "7", "8", "9"}

\* is_valid of validate_e164_phone: a plus sign, then up to fifteen digits,
\* the first of them not zero.
validate_e164_phone(number) ==
    /\ Len(number) >= 2
    /\ Len(number) <= 16
    /\ number[1] = "+"
    /\ number[2] \in DigitChars \ {"0"}
    /\ \A i \in 3..Len(number) : number[i] \in DigitChars

MsgTransferUnavailable ==
    "I'm sorry, call transfers are not available right now. Would you like me to take your information so someone can call you back?"
MsgTransferUnable ==
    "I'm sorry, I'm unable to transfer the call right now. Would you like me to take your information for a callback?"
MsgTransferNotConfigured ==
    "I'm sorry, call transfers are not configured. Would you like me to take your information for a callback?"
MsgTransferFailed ==
    "I'm sorry, I wasn't able to complete the transfer. Would you like me to take your information so someone can call you back?"
MsgTransferring ==
    "I'm connecting you now. Please hold while I transfer your call."

\* A variant of TransferRefusal that does not validate the number.
TransferRefusalUnvalidated(a) ==
    IF ~a.can_transfer \/ a.transfer_number \in {NoNumber, <<>>}
    THEN MsgTransferUnavailable
    ELSE None

\* agent.py 291-298: what transfer_call returns before it reaches the
\* platform, None when it goes on
TransferRefusal(a) ==
    IF ~a.can_transfer \/ a.transfer_number \in {NoNumber, <<>>}
    THEN MsgTransferUnavailable
    ELSE IF ~validate_e164_phone(a.transfer_number)
    THEN MsgTransferUnable
    ELSE None

\* agent.py 277-339.  The platform dials ("ok"), raises, or dials and then
\* raises as the client is closed ("close_raises").
TransferCall(s, in) ==
    /\ pc[s] = "active"
    /\ last_tool[s].legs < MaxTransfers
    /\ \E trunk \in in.trunks, dial \in in.dials :
         LET refusal == TransferRefusal(agent[s])
             reached == refusal = None /\ trunk
             leg == reached /\ dial \in {"ok", "close_raises"}
             connected == reached /\ dial = "ok"
             spoken == IF refusal # None THEN refusal
                       ELSE IF ~trunk
                       THEN IF dial = "close_raises" THEN MsgTransferFailed
                            ELSE MsgTransferNotConfigured
                       ELSE IF dial = "ok" THEN MsgTransferring
                       ELSE MsgTransferFailed
         IN  /\ active_calls' =
                    IF connected /\ s \in DOMAIN active_calls
                    THEN [active_calls EXCEPT ![s].transferred = TRUE]
                    ELSE active_calls
             /\ last_tool' = [last_tool EXCEPT ![s] =
                    [@ EXCEPT !.name = "transfer_call",
                              !.listing_id = None,
                              !.backend = dial,
                              !.lead_id = NoId,
                              !.spoken = spoken,
                              !.escaped = FALSE,
                              !.legs = IF leg THEN @ + 1 ELSE @]]
    /\ UNCHANGED <<pc, caller_phone, dealer_id, dealer_voice_agent_id, agent,
                   fin, recording_enabled, storeVars, effects, end_signals,
                   captured, lookup, answer>>
    /\ UNCHANGED authVars

\* --------------------------------------------------- the end of a call
\* agent.py 639-656: session.wait() returns or raises (the caller hangs up,
\* the task is cancelled, the session fails); the finally block starts and
\* reads the call's entry.
SessionEnd(s, in) ==
    /\ pc[s] = "active"
    /\ \E wall \in in.durations :
         LET present == s \in DOMAIN active_calls
             entry_lead == IF present THEN active_calls[s].lead_id ELSE NoId
         IN  fin' = [fin EXCEPT ![s] =
                 [ call_duration |-> wall,
                   call_minutes |-> CallMinutes(wall),
                   recorded_duration |-> NoDuration,
                   recording_url |-> None,
                   egress_id |-> IF present THEN active_calls[s].egress_id ELSE NoId,
                   lead_id |-> IF entry_lead # NoId THEN entry_lead
                               ELSE agent[s].captured_lead_id,
                   call_log_id |-> IF present THEN active_calls[s].call_log_id
                                   ELSE NoId,
                   dealer_voice_agent_id |->
                       IF present THEN active_calls[s].dealer_voice_agent_id
                       ELSE None,
                   minutes_read |-> 0 ]]
    /\ pc' = [pc EXCEPT ![s] = "fin_stop_recording"]
    /\ end_signals' = [end_signals EXCEPT ![s] = 1]
    /\ UNCHANGED <<caller_phone, dealer_id, dealer_voice_agent_id, active_calls,
                   agent, recording_enabled, storeVars, effects, captured, last_tool, lookup, answer>>
    /\ UNCHANGED authVars

Finalizing ==
    {"fin_stop_recording", "fin_billing", "fin_billing_write", "fin_lead",
     "fin_call_log", "fin_cleanup"}

\* A variant of DuplicateEnd in which a further end signal runs the finally
\* block again.
DuplicateEndRestarts(s) ==
    /\ pc[s] \in Finalizing \cup {"done"}
    /\ end_signals[s] < MaxEndSignals
    /\ end_signals' = [end_signals EXCEPT ![s] = @ + 1]
    /\ pc' = [pc EXCEPT ![s] = "fin_stop_recording"]
    /\ UNCHANGED <<caller_phone, dealer_id, dealer_voice_agent_id, active_calls,
                   agent, fin, recording_enabled, storeVars, effects, captured, last_tool, lookup, answer>>
    /\ UNCHANGED authVars

\* agent.py 639-644: a further end signal for a call whose coroutine has left
\* session.wait(): nothing waits for it, the finally block goes on.
DuplicateEnd(s) ==
    /\ pc[s] \in Finalizing \cup {"done"}
    /\ end_signals[s] < MaxEndSignals
    /\ end_signals' = [end_signals EXCEPT ![s] = @ + 1]
    /\ UNCHANGED <<callVars, storeVars, effects, captured, last_tool, lookup, answer>>
    /\ UNCHANGED authVars

\* ------------------------------------------------------- finalization
\* A variant of FinStopRecording that stops the recording whether or not the
\* call has an egress id.
FinStopRecordingAlways(s, in) ==
    /\ pc[s] = "fin_stop_recording"
    /\ \E res \in in.stops :
          LET recorded == res.duration # NoDuration /\ res.duration # 0
              call_duration == IF recorded THEN res.duration
                               ELSE fin[s].call_duration
          IN  fin' = [fin EXCEPT
                  ![s].recording_url = res.url,
                  ![s].recorded_duration = res.duration,
                  ![s].call_duration = call_duration,
                  ![s].call_minutes = IF recorded THEN CallMinutes(call_duration)
                                      ELSE @]
    /\ effects' = [effects EXCEPT ![s].stop_recording = @ + 1]
    /\ pc' = [pc EXCEPT ![s] = "fin_billing"]
    /\ UNCHANGED <<caller_phone, dealer_id, dealer_voice_agent_id, active_calls,
                   agent, recording_enabled, storeVars, end_signals, captured,
                   last_tool, lookup, answer>>
    /\ UNCHANGED authVars

\* A variant of FinStopRecording in which stop_recording lacks its try/except:
\* a stop that fails leaves entrypoint.
FinStopRecordingRaises(s, in) ==
    /\ pc[s] = "fin_stop_recording"
    /\ IF fin[s].egress_id # NoId
       THEN /\ \E res \in in.stops :
                 LET recorded == res.duration # NoDuration /\ res.duration # 0
                     call_duration == IF recorded THEN res.duration
                                      ELSE fin[s].call_duration
                     failed == res.url = None /\ res.duration = NoDuration
                 IN  /\ fin' = [fin EXCEPT
                            ![s].recording_url = res.url,
                            ![s].recorded_duration = res.duration,
                            ![s].call_duration = call_duration,
                            ![s].call_minutes = IF recorded
                                                THEN CallMinutes(call_duration)
                                                ELSE @]
                     /\ pc' = [pc EXCEPT ![s] = IF failed THEN "crashed"
                                                ELSE "fin_billing"]
            /\ effects' = [effects EXCEPT ![s].stop_recording = @ + 1]
       ELSE /\ UNCHANGED <<fin, effects>>
            /\ pc' = [pc EXCEPT ![s] = "fin_billing"]
    /\ UNCHANGED <<caller_phone, dealer_id, dealer_voice_agent_id, active_calls,
                   agent, recording_enabled, storeVars, end_signals, captured,
                   last_tool, lookup, answer>>
    /\ UNCHANGED authVars

\* agent.py 398-430 and 658-662: stop_recording answers (recording_url,
\* duration), (None, None) when it raises.
FinStopRecording(s, in) ==
    /\ pc[s] = "fin_stop_recording"
    /\ IF fin[s].egress_id # NoId
       THEN /\ \E res \in in.stops :
                 LET recorded == res.duration # NoDuration /\ res.duration # 0
                     call_duration == IF recorded THEN res.duration
                                      ELSE fin[s].call_duration
                 IN  fin' = [fin EXCEPT
                         ![s].recording_url = res.url,
                         ![s].recorded_duration = res.duration,
                         ![s].call_duration = call_duration,
                         ![s].call_minutes = IF recorded
                                             THEN CallMinutes(call_duration)
                                             ELSE @]
            /\ effects' = [effects EXCEPT ![s].stop_recording = @ + 1]
       ELSE UNCHANGED <<fin, effects>>
    /\ pc' = [pc EXCEPT ![s] = "fin_billing"]
    /\ UNCHANGED <<caller_phone, dealer_id, dealer_voice_agent_id, active_calls,
                   agent, recording_enabled, storeVars, end_signals, captured, last_tool, lookup, answer>>
    /\ UNCHANGED authVars

\* A variant of FinBillingRead in which a select that fails ends the finally
\* block but for the cleanup.
FinBillingReadAborts(s) ==
    /\ pc[s] = "fin_billing"
    /\ IF fin[s].dealer_voice_agent_id # None
       THEN /\ effects' = [effects EXCEPT
                   ![s].increment_calls = @ + 1,
                   ![s].minutes_billed = fin[s].call_minutes]
            /\ \E answered \in BOOLEAN :
                 IF answered
                 THEN /\ fin' = [fin EXCEPT ![s].minutes_read =
                                    minutes_used[fin[s].dealer_voice_agent_id]]
                      /\ pc' = [pc EXCEPT ![s] = "fin_billing_write"]
                 ELSE /\ pc' = [pc EXCEPT ![s] = "fin_cleanup"]
                      /\ UNCHANGED fin
       ELSE /\ pc' = [pc EXCEPT ![s] = "fin_lead"]
            /\ UNCHANGED <<fin, effects>>
    /\ UNCHANGED <<caller_phone, dealer_id, dealer_voice_agent_id, active_calls,
                   agent, recording_enabled, storeVars, end_signals, captured, last_tool, lookup, answer>>
    /\ UNCHANGED authVars

\* agent.py 664-666 and tools.py 185-196: the select of increment_dealer_minutes
FinBillingRead(s) ==
    /\ pc[s] = "fin_billing"
    /\ IF fin[s].dealer_voice_agent_id # None
       THEN /\ effects' = [effects EXCEPT
                   ![s].increment_calls = @ + 1,
                   ![s].minutes_billed = fin[s].call_minutes]
            /\ \E answered \in BOOLEAN :
                 IF answered
                 THEN /\ fin' = [fin EXCEPT ![s].minutes_read =
                                    minutes_used[fin[s].dealer_voice_agent_id]]
                      /\ pc' = [pc EXCEPT ![s] = "fin_billing_write"]
                 ELSE /\ pc' = [pc EXCEPT ![s] = "fin_lead"]
                      /\ UNCHANGED fin
       ELSE /\ pc' = [pc EXCEPT ![s] = "fin_lead"]
            /\ UNCHANGED <<fin, effects>>
    /\ UNCHANGED <<caller_phone, dealer_id, dealer_voice_agent_id, active_calls,
                   agent, recording_enabled, storeVars, end_signals, captured, last_tool, lookup, answer>>
    /\ UNCHANGED authVars

\* tools.py 196-201: new_minutes and the update of increment_dealer_minutes
FinBillingWrite(s) ==
    /\ pc[s] = "fin_billing_write"
    /\ \E written \in BOOLEAN :
         IF written
         THEN /\ minutes_used' =
                    [minutes_used EXCEPT ![fin[s].dealer_voice_agent_id] =
                        fin[s].minutes_read + fin[s].call_minutes]
              /\ effects' = [effects EXCEPT ![s].minutes_writes = @ + 1]
         ELSE UNCHANGED <<minutes_used, effects>>
    /\ pc' = [pc EXCEPT ![s] = "fin_lead"]
    /\ UNCHANGED <<caller_phone, dealer_id, dealer_voice_agent_id, active_calls,
                   agent, fin, recording_enabled, leads, call_logs, end_signals,
                   captured, last_tool, lookup, answer>>
    /\ UNCHANGED authVars

\* agent.py 668-676 and tools.py 483-513
FinLeadUpdate(s) ==
    /\ pc[s] = "fin_lead"
    /\ IF /\ fin[s].lead_id # NoId
          /\ (fin[s].recording_url # None \/ fin[s].call_duration # 0)
       THEN /\ effects' = [effects EXCEPT ![s].lead_updates = @ + 1]
            /\ \E updated \in BOOLEAN :
                 leads' =
                    IF updated /\ fin[s].lead_id \in DOMAIN leads
                    THEN [leads EXCEPT
                            ![fin[s].lead_id].call_recording_url =
                                IF fin[s].recording_url # None
                                THEN fin[s].recording_url ELSE @,
                            ![fin[s].lead_id].call_duration_seconds =
                                IF fin[s].call_duration # 0
                                THEN fin[s].call_duration ELSE @,
                            ![fin[s].lead_id].call_sid = s]
                    ELSE leads
       ELSE UNCHANGED <<leads, effects>>
    /\ pc' = [pc EXCEPT ![s] = "fin_call_log"]
    /\ UNCHANGED <<caller_phone, dealer_id, dealer_voice_agent_id, active_calls,
                   agent, fin, recording_enabled, minutes_used, call_logs,
                   end_signals, captured, last_tool, lookup, answer>>
    /\ UNCHANGED authVars

\* A variant of Transcribed without the threshold of 5 seconds.
TranscribedAnyLength(recording_url, call_duration) ==
    recording_url # None /\ call_duration # 0

\* agent.py 694: the recording is transcribed
Transcribed(recording_url, call_duration) ==
    recording_url # None /\ call_duration # 0 /\ call_duration > 5

\* A variant of FinCallLogUpdate that awaits transcribe_and_summarize instead
\* of creating a task for it.
FinCallLogUpdateAwaits(s) ==
    /\ pc[s] = "fin_call_log"
    /\ IF fin[s].call_log_id # NoId
       THEN /\ effects' = [effects EXCEPT
                   ![s].log_updates = @ + 1,
                   ![s].transcriptions =
                       IF Transcribed(fin[s].recording_url, fin[s].call_duration)
                       THEN @ + 1 ELSE @,
                   ![s].job =
                       IF Transcribed(fin[s].recording_url, fin[s].call_duration)
                       THEN "finished" ELSE @]
            /\ \E updated \in BOOLEAN :
                 call_logs' =
                    IF updated /\ fin[s].call_log_id \in DOMAIN call_logs
                    THEN [call_logs EXCEPT ![fin[s].call_log_id] =
                            [@ EXCEPT
                               !.status = "completed",
                               !.caller_name = IF agent[s].caller_name # None
                                               THEN agent[s].caller_name ELSE @,
                               !.duration_seconds = IF fin[s].call_duration # 0
                                                    THEN fin[s].call_duration ELSE @,
                               !.recording_url = IF fin[s].recording_url # None
                                                 THEN fin[s].recording_url ELSE @,
                               !.interest = IF agent[s].interest # None
                                            THEN agent[s].interest ELSE @,
                               !.equipment_type = IF agent[s].equipment_type # None
                                                  THEN agent[s].equipment_type ELSE @,
                               !.intent = IF agent[s].intent # None
                                          THEN agent[s].intent ELSE @,
                               !.lead_id = IF fin[s].lead_id # NoId
                                           THEN fin[s].lead_id ELSE @]]
                    ELSE call_logs
       ELSE UNCHANGED <<call_logs, effects>>
    /\ pc' = [pc EXCEPT ![s] = "fin_cleanup"]
    /\ UNCHANGED <<caller_phone, dealer_id, dealer_voice_agent_id, active_calls,
                   agent, fin, recording_enabled, minutes_used, leads,
                   end_signals, captured, last_tool, lookup, answer>>
    /\ UNCHANGED authVars

\* agent.py 678-698 and tools.py 896-944; create_task leaves the background
\* job of the call running (effects[s].job).
FinCallLogUpdate(s) ==
    /\ pc[s] = "fin_call_log"
    /\ IF fin[s].call_log_id # NoId
       THEN /\ effects' = [effects EXCEPT
                   ![s].log_updates = @ + 1,
                   ![s].transcriptions =
                       IF Transcribed(fin[s].recording_url, fin[s].call_duration)
                       THEN @ + 1 ELSE @,
                   ![s].job =
                       IF Transcribed(fin[s].recording_url, fin[s].call_duration)
                       THEN "running" ELSE @]
            /\ \E updated \in BOOLEAN :
                 call_logs' =
                    IF updated /\ fin[s].call_log_id \in DOMAIN call_logs
                    THEN [call_logs EXCEPT ![fin[s].call_log_id] =
                            [@ EXCEPT
                               !.status = "completed",
                               !.caller_name = IF agent[s].caller_name # None
                                               THEN agent[s].caller_name ELSE @,
                               !.duration_seconds = IF fin[s].call_duration # 0
                                                    THEN fin[s].call_duration ELSE @,
                               !.recording_url = IF fin[s].recording_url # None
                                                 THEN fin[s].recording_url ELSE @,
                               !.interest = IF agent[s].interest # None
                                            THEN agent[s].interest ELSE @,
                               !.equipment_type = IF agent[s].equipment_type # None
                                                  THEN agent[s].equipment_type ELSE @,
                               !.intent = IF agent[s].intent # None
                                          THEN agent[s].intent ELSE @,
                               !.lead_id = IF fin[s].lead_id # NoId
                                           THEN fin[s].lead_id ELSE @]]
                    ELSE call_logs
       ELSE UNCHANGED <<call_logs, effects>>
    /\ pc' = [pc EXCEPT ![s] = "fin_cleanup"]
    /\ UNCHANGED <<caller_phone, dealer_id, dealer_voice_agent_id, active_calls,
                   agent, fin, recording_enabled, minutes_used, leads,
                   end_signals, captured, last_tool, lookup, answer>>
    /\ UNCHANGED authVars

\* agent.py 705-715: the background job of call s awaits
\* transcribe_call_recording, which answers a transcript, answers none, or
\* raises; what is raised is caught and logged.
JobTranscribe(s) ==
    /\ effects[s].job = "running"
    /\ \E outcome \in {"transcript", "none", "raise"} :
          effects' = [effects EXCEPT ![s].job =
                         CASE outcome = "transcript" -> "transcribed"
                           [] outcome = "none" -> "finished"
                           [] outcome = "raise" -> "failed"]
    /\ UNCHANGED <<callVars, storeVars, end_signals, captured, last_tool,
                   lookup, answer, authVars>>

\* agent.py 711-713: with a transcript the job awaits summarize_call, which
\* returns or raises.
JobSummarize(s) ==
    /\ effects[s].job = "transcribed"
    /\ \E raised \in BOOLEAN :
          effects' = [effects EXCEPT ![s].job = IF raised THEN "failed"
                                               ELSE "finished"]
    /\ UNCHANGED <<callVars, storeVars, end_signals, captured, last_tool,
                   lookup, answer, authVars>>

\* A variant of FinCleanup that empties active_calls.
FinCleanupAll(s) ==
    /\ pc[s] = "fin_cleanup"
    /\ active_calls' = <<>>
    /\ pc' = [pc EXCEPT ![s] = "done"]
    /\ UNCHANGED <<caller_phone, dealer_id, dealer_voice_agent_id, agent, fin,
                   recording_enabled, storeVars, historyVars>>
    /\ UNCHANGED authVars

\* agent.py 700-702
FinCleanup(s) ==
    /\ pc[s] = "fin_cleanup"
    /\ active_calls' = IF s \in DOMAIN active_calls
                       THEN Without(active_calls, s) ELSE active_calls
    /\ pc' = [pc EXCEPT ![s] = "done"]
    /\ UNCHANGED <<caller_phone, dealer_id, dealer_voice_agent_id, agent, fin,
                   recording_enabled, storeVars, historyVars>>
    /\ UNCHANGED authVars

\* ---------------------------------------------------------- the staff
StaffIds == {"st1", "st2", "st3", "st4"}

\* dealer_staff: the columns the calls never write.
staff_rows ==
    [ st1 |-> [ dealer_id |-> "dA", name |-> <<"J","o","h","n">>,
                voice_pin |-> "1234", is_active |-> TRUE ],
      st2 |-> [ dealer_id |-> "dA", name |-> <<"J","o","a","n">>,
                voice_pin |-> "1234", is_active |-> TRUE ],
      st3 |-> [ dealer_id |-> "dB", name |-> <<"J","o","h","n">>,
                voice_pin |-> "9999", is_active |-> TRUE ],
      st4 |-> [ dealer_id |-> "dA", name |-> <<"A","n","n">>,
                voice_pin |-> "5555", is_active |-> FALSE ] ]

\* str.lower()
LowerOf == [A |-> "a", H |-> "h", J |-> "j", N |-> "n", O |-> "o"]
Lower(str) ==
    [i \in 1..Len(str) |-> IF str[i] \in DOMAIN LowerOf THEN LowerOf[str[i]]
                           ELSE str[i]]

\* a in b, for strings
IsSubstring(a, b) ==
    \E i \in 0..(Len(b) - Len(a)) : SubSeq(b, i + 1, i + Len(a)) = a

\* A variant of PinMatches whose select leaves out the dealer.
PinMatchesAnyDealer(dealer, pin) ==
    {id \in StaffIds : /\ staff_rows[id].voice_pin = pin
                       /\ staff_rows[id].is_active}

\* tools.py 548-550: the rows the select of verify_pin returns
PinMatches(dealer, pin) ==
    {id \in StaffIds : /\ staff_rows[id].dealer_id = dealer
                       /\ staff_rows[id].voice_pin = pin
                       /\ staff_rows[id].is_active}

\* A variant of NameMatches that takes the first row whatever its name.
NameMatchesAny(name, rows) == rows

\* A variant of NameMatches that compares the names as they are written.
NameMatchesCaseSensitive(name, rows) ==
    {id \in rows : IsSubstring(name, staff_rows[id].name)}

\* tools.py 567-570: the rows whose name contains the claimed name.  The
\* select states no order, so the loop may meet any of them first.
NameMatches(name, rows) ==
    {id \in rows : IsSubstring(Lower(name), Lower(staff_rows[id].name))}

\* A variant of Locked that never finds a lock.
LockedNever(id) == FALSE

\* tools.py 586-589
Locked(id) ==
    /\ dealer_staff[id].locked_until # NoTime
    /\ dealer_staff[id].locked_until > now

\* A variant of QueryAllowed that leaves out the agent's flag.
QueryAllowedWithoutFlag(a) == a.staff_auth_tools

\* agent.py 241-245: the checks before a query reaches the store
QueryAllowed(a) == a.staff_auth_tools /\ a.is_staff_authenticated

MsgNoStaffLine == "Staff authentication is not available for this line."
MsgInvalidPin == "Invalid PIN. Please try again."
MsgNameMismatch ==
    "I couldn't verify that name and PIN combination. Please try again."
MsgLocked == "This account is temporarily locked. Please try again later."
MsgTrouble == "I'm having trouble verifying your credentials. Please try again."
MsgGranted == "Access granted. Welcome back"
MsgNotAvailable == "Internal data access is not available for this line."
MsgAuthFirst == "You need to authenticate first. Please tell me your name and PIN."
MsgAuthFirstTools ==
    "You need to authenticate first. Please provide your name and PIN."
MsgUnknownQuery == "I don't recognize the query type"
MsgQueryTrouble ==
    "I'm having trouble accessing that data right now. Please try again."
MsgData == "internal data"

QueryTypes == {"inventory", "lead", "leads", "customer", "pricing", "stats"}

ToolIdle ==
    [ name |-> "none", step |-> "none", arg_name |-> <<>>, arg_pin |-> None,
      staff |-> None, access_count |-> 0, select_time |-> NoTime ]

\* What the history keeps of an answer; the fields an answer does not set.
BaseReply(s) ==
    [ tool |-> "none", name |-> <<>>, pin |-> None, query_type |-> None,
      message |-> None, granted |-> FALSE, raised |-> FALSE,
      was_authenticated |-> agent[s].is_staff_authenticated,
      staff_before |-> agent[s].authenticated_staff,
      picked |-> None, select_time |-> now, data_read |-> FALSE ]

StaffRowInit(locked_until, failed_attempts) ==
    [ failed_attempts |-> failed_attempts, access_count |-> 0,
      last_access_at |-> NoTime, locked_until |-> locked_until ]

\* The staff tables of a run in which no staff tool is used.
StaffInit ==
    /\ dealer_staff = [id \in StaffIds |-> StaffRowInit(NoTime, 0)]
    /\ access_logs = <<>>
    /\ now = 1
    /\ tool = [s \in Sessions |-> ToolIdle]
    /\ reply = [s \in Sessions |->
                  [ tool |-> "none", name |-> <<>>, pin |-> None,
                    query_type |-> None, message |-> None, granted |-> FALSE,
                    raised |-> FALSE, was_authenticated |-> FALSE,
                    staff_before |-> None, picked |-> None,
                    select_time |-> NoTime, data_read |-> FALSE ]]
    /\ attempts = [s \in Sessions |-> 0]

\* ------------------------------------------------------ verify_staff_pin
\* agent.py 183-206 and tools.py 544-589: the line's check, the select, the
\* name loop and the lock check, up to the next request to the store.
VerifyStaffPin(s, in) ==
    /\ pc[s] = "active"
    /\ tool[s].name = "none"
    /\ attempts[s] < MaxAttempts
    /\ attempts' = [attempts EXCEPT ![s] = @ + 1]
    /\ \E name \in in.staff_names, pin \in in.pins, answered \in BOOLEAN :
         LET base == [BaseReply(s) EXCEPT
                         !.tool = "verify_staff_pin", !.name = name, !.pin = pin]
             call == [ToolIdle EXCEPT
                         !.name = "verify_staff_pin", !.arg_name = name,
                         !.arg_pin = pin, !.select_time = now]
             rows == PinMatches(dealer_id[s], pin)
             matching == NameMatches(name, rows)
         IN  IF ~agent[s].staff_auth_tools
             THEN /\ reply' = [reply EXCEPT ![s] =
                                  [base EXCEPT !.message = MsgNoStaffLine]]
                  /\ UNCHANGED tool
             ELSE IF ~answered
             THEN /\ reply' = [reply EXCEPT ![s] =
                                  [base EXCEPT !.message = MsgTrouble,
                                               !.raised = TRUE]]
                  /\ UNCHANGED tool
             ELSE IF rows = {}
             THEN /\ tool' = [tool EXCEPT ![s] =
                                 [call EXCEPT !.step = "log_invalid_pin"]]
                  /\ UNCHANGED reply
             ELSE IF matching = {}
             THEN /\ tool' = [tool EXCEPT ![s] =
                                 [call EXCEPT !.step = "log_name_mismatch"]]
                  /\ UNCHANGED reply
             ELSE \E staff \in matching :
                    IF Locked(staff)
                    THEN /\ reply' = [reply EXCEPT ![s] =
                                         [base EXCEPT !.message = MsgLocked,
                                                      !.picked = staff]]
                         /\ UNCHANGED tool
                    ELSE /\ tool' = [tool EXCEPT ![s] =
                                        [call EXCEPT
                                            !.step = "update_access",
                                            !.staff = staff,
                                            !.access_count =
                                                dealer_staff[staff].access_count]]
                         /\ UNCHANGED reply
    /\ UNCHANGED <<callVars, storeVars, historyVars, dealer_staff, access_logs,
                   now>>

\* A variant of VerifyLogFailure that denies without a log row.
VerifyLogFailureSilent(s) ==
    /\ tool[s].step \in {"log_invalid_pin", "log_name_mismatch"}
    /\ \E inserted \in BOOLEAN :
         LET invalid == tool[s].step = "log_invalid_pin"
             base == [BaseReply(s) EXCEPT
                         !.tool = "verify_staff_pin", !.name = tool[s].arg_name,
                         !.pin = tool[s].arg_pin,
                         !.select_time = tool[s].select_time]
         IN  /\ access_logs' = access_logs
             /\ reply' = [reply EXCEPT ![s] =
                    IF ~inserted
                    THEN [base EXCEPT !.message = MsgTrouble, !.raised = TRUE]
                    ELSE [base EXCEPT !.message = IF invalid THEN MsgInvalidPin
                                                  ELSE MsgNameMismatch]]
    /\ tool' = [tool EXCEPT ![s] = ToolIdle]
    /\ UNCHANGED <<callVars, storeVars, historyVars, dealer_staff, now, attempts>>

\* tools.py 552-563 and 572-583: the log row of a failed attempt, the answer.
VerifyLogFailure(s) ==
    /\ tool[s].step \in {"log_invalid_pin", "log_name_mismatch"}
    /\ \E inserted \in BOOLEAN :
         LET invalid == tool[s].step = "log_invalid_pin"
             base == [BaseReply(s) EXCEPT
                         !.tool = "verify_staff_pin", !.name = tool[s].arg_name,
                         !.pin = tool[s].arg_pin,
                         !.select_time = tool[s].select_time]
         IN  /\ access_logs' =
                    IF inserted
                    THEN Append(access_logs,
                                [ dealer_id |-> dealer_id[s], staff_id |-> None,
                                  auth_success |-> FALSE,
                                  auth_method |-> IF invalid THEN "pin"
                                                  ELSE "name_and_pin",
                                  query_type |-> None ])
                    ELSE access_logs
             /\ reply' = [reply EXCEPT ![s] =
                    IF ~inserted
                    THEN [base EXCEPT !.message = MsgTrouble, !.raised = TRUE]
                    ELSE [base EXCEPT !.message = IF invalid THEN MsgInvalidPin
                                                  ELSE MsgNameMismatch]]
    /\ tool' = [tool EXCEPT ![s] = ToolIdle]
    /\ UNCHANGED <<callVars, storeVars, historyVars, dealer_staff, now, attempts>>

\* tools.py 591-596: the update of the staff row, from the row as selected.
VerifyUpdateAccess(s) ==
    /\ tool[s].step = "update_access"
    /\ \E updated \in BOOLEAN :
         IF updated
         THEN /\ dealer_staff' = [dealer_staff EXCEPT ![tool[s].staff] =
                    [@ EXCEPT !.last_access_at = now,
                              !.access_count = tool[s].access_count + 1,
                              !.failed_attempts = 0]]
              /\ tool' = [tool EXCEPT ![s].step = "log_success"]
              /\ UNCHANGED reply
         ELSE /\ reply' = [reply EXCEPT ![s] =
                    [BaseReply(s) EXCEPT
                        !.tool = "verify_staff_pin", !.name = tool[s].arg_name,
                        !.pin = tool[s].arg_pin, !.picked = tool[s].staff,
                        !.select_time = tool[s].select_time,
                        !.message = MsgTrouble, !.raised = TRUE]]
              /\ tool' = [tool EXCEPT ![s] = ToolIdle]
              /\ UNCHANGED dealer_staff
    /\ UNCHANGED <<callVars, storeVars, historyVars, access_logs, now, attempts>>

\* tools.py 598-612 and agent.py 208-222: the log row of the success, the
\* authenticated staff, the agent's flag and caller_name.
VerifyLogSuccess(s) ==
    /\ tool[s].step = "log_success"
    /\ \E inserted \in BOOLEAN :
         LET base == [BaseReply(s) EXCEPT
                         !.tool = "verify_staff_pin", !.name = tool[s].arg_name,
                         !.pin = tool[s].arg_pin, !.picked = tool[s].staff,
                         !.select_time = tool[s].select_time]
         IN  IF inserted
             THEN /\ access_logs' =
                        Append(access_logs,
                               [ dealer_id |-> dealer_id[s],
                                 staff_id |-> tool[s].staff,
                                 auth_success |-> TRUE,
                                 auth_method |-> "name_and_pin",
                                 query_type |-> None ])
                  /\ agent' = [agent EXCEPT
                        ![s].authenticated_staff = tool[s].staff,
                        ![s].is_staff_authenticated = TRUE,
                        ![s].caller_name = tool[s].staff]
                  /\ reply' = [reply EXCEPT ![s] =
                        [base EXCEPT !.message = MsgGranted, !.granted = TRUE]]
             ELSE /\ reply' = [reply EXCEPT ![s] =
                        [base EXCEPT !.message = MsgTrouble, !.raised = TRUE]]
                  /\ UNCHANGED <<access_logs, agent>>
    /\ tool' = [tool EXCEPT ![s] = ToolIdle]
    /\ UNCHANGED <<pc, caller_phone, dealer_id, dealer_voice_agent_id,
                   active_calls, fin, recording_enabled, storeVars, historyVars,
                   dealer_staff, now, attempts>>

\* --------------------------------------------------- query_internal_data
\* agent.py 224-275 and tools.py 618-656: the checks, the query (which only
\* reads) and the log row of the query.
QueryInternalData(s, in) ==
    /\ pc[s] = "active"
    /\ tool[s].name = "none"
    /\ attempts[s] < MaxAttempts
    /\ attempts' = [attempts EXCEPT ![s] = @ + 1]
    /\ \E query_type \in in.query_types, answered \in BOOLEAN,
          logged \in BOOLEAN :
         LET base == [BaseReply(s) EXCEPT
                         !.tool = "query_internal_data",
                         !.query_type = query_type]
             staff == agent[s].authenticated_staff
         IN  IF ~agent[s].staff_auth_tools
             THEN /\ reply' = [reply EXCEPT ![s] =
                                  [base EXCEPT !.message = MsgNotAvailable]]
                  /\ UNCHANGED access_logs
             ELSE IF ~QueryAllowed(agent[s])
             THEN /\ reply' = [reply EXCEPT ![s] =
                                  [base EXCEPT !.message = MsgAuthFirst]]
                  /\ UNCHANGED access_logs
             ELSE /\ reply' = [reply EXCEPT ![s] =
                        IF staff = None
                        THEN [base EXCEPT !.message = MsgAuthFirstTools]
                        ELSE IF query_type \notin QueryTypes
                        THEN [base EXCEPT !.message = MsgUnknownQuery]
                        ELSE IF ~answered
                        THEN [base EXCEPT !.message = MsgQueryTrouble,
                                          !.raised = TRUE]
                        ELSE [base EXCEPT !.message = MsgData,
                                          !.data_read = TRUE]]
                  /\ access_logs' =
                        IF staff # None /\ logged
                        THEN Append(access_logs,
                                    [ dealer_id |-> dealer_id[s],
                                      staff_id |-> staff,
                                      auth_success |-> TRUE,
                                      auth_method |-> None,
                                      query_type |-> query_type ])
                        ELSE access_logs
    /\ UNCHANGED <<callVars, storeVars, historyVars, dealer_staff, now, tool>>

\* The clock moves on.
Tick ==
    /\ now < MaxNow
    /\ now' = now + 1
    /\ UNCHANGED <<callVars, storeVars, historyVars, dealer_staff, access_logs,
                   tool, reply, attempts>>

\* ------------------------------------------------------ specifications
\* ------------------------------------------- the internal queries
MsgNoInternalListings == "No listings found matching your criteria."
MsgProvideStock == "Please provide a stock number or listing ID."
MsgNoListingFor == "No listing found for"

\* A variant of CostFields that looks at no permission flag.
CostFieldsUngated(staff, listing, margin_fields) ==
    IF listing.acquisition_cost # 0
    THEN {"cost"} \cup (IF listing.price # 0 THEN margin_fields ELSE {})
    ELSE {}

\* tools.py 693-701 and 804-811: what a line says of cost and margin; a
\* price or a cost of 0 stands for one that is absent as well.
CostFields(staff, listing, margin_fields) ==
    IF staff.can_view_costs /\ listing.acquisition_cost # 0
    THEN {"cost"} \cup (IF staff.can_view_margins /\ listing.price # 0
                        THEN margin_fields ELSE {})
    ELSE {}

\* tools.py 658-705: _query_inventory; each line names its listing and the
\* fields it tells.
QueryInventory(staff, rows) ==
    IF rows = <<>>
    THEN [message |-> MsgNoInternalListings, lines |-> <<>>]
    ELSE [message |-> "Found listings:",
          lines |-> [i \in 1..Len(rows) |->
                       [ id |-> rows[i].id,
                         fields |-> {"stock", "title", "price", "status"}
                                      \cup CostFields(staff, rows[i], {"margin"}) ]]]

\* tools.py 773-813: _query_pricing; single() on no row answers without data
\* or raises, as `strict` says, and query_internal_data catches what is
\* raised (tools.py 654-656).
QueryPricing(staff, rows, query, strict) ==
    LET found == SelectSeq(rows, LAMBDA row : row.id = query)
    IN  IF query = None
        THEN [message |-> MsgProvideStock, lines |-> <<>>]
        ELSE IF Len(found) # 1
        THEN [message |-> IF found = <<>> /\ ~strict THEN MsgNoListingFor
                          ELSE MsgQueryTrouble,
              lines |-> <<>>]
        ELSE [message |-> "pricing",
              lines |-> << [ id |-> found[1].id,
                             fields |-> {"title", "stock"}
                                 \cup (IF found[1].price # 0 THEN {"price"} ELSE {})
                                 \cup CostFields(staff, found[1],
                                                 {"margin", "min_price"}) ] >>]

\* tools.py 618-656: query_internal_data for an authenticated staff member
InternalAnswer(staff, rows, query_type, query, strict) ==
    IF query_type = "inventory" THEN QueryInventory(staff, rows)
    ELSE QueryPricing(staff, rows, query, strict)

StaffFlags == [can_view_costs : BOOLEAN, can_view_margins : BOOLEAN]

\* The listings of the dealer that an internal query may meet.
InternalListings ==
    { <<[id |-> "L1", price |-> p1, acquisition_cost |-> c1],
        [id |-> "L2", price |-> 100, acquisition_cost |-> c2]>> :
          p1 \in {0, 100}, c1 \in {0, 80}, c2 \in {0, 80} }
       \cup {<<>>}

\* ------------------------------------------ transfer_call in flight
\* agent.py 291-323: transfer_call up to its request to the platform, which
\* it awaits; the call's other coroutines run meanwhile.
TransferDial(s, in) ==
    /\ pc[s] = "active"
    /\ tool[s].name = "none"
    /\ last_tool[s].legs < MaxTransfers
    /\ TransferRefusal(agent[s]) = None
    /\ TRUE \in in.trunks
    /\ tool' = [tool EXCEPT ![s] =
                   [ToolIdle EXCEPT !.name = "transfer_call", !.step = "dialing"]]
    /\ UNCHANGED <<callVars, storeVars, historyVars, dealer_staff, access_logs,
                   now, reply, attempts>>

\* agent.py 314-339: the platform has answered the request of transfer_call.
TransferReturn(s, in) ==
    /\ tool[s].name = "transfer_call"
    /\ tool[s].step = "dialing"
    /\ \E dial \in in.dials :
         /\ active_calls' =
                IF dial = "ok" /\ s \in DOMAIN active_calls
                THEN [active_calls EXCEPT ![s].transferred = TRUE]
                ELSE active_calls
         /\ last_tool' = [last_tool EXCEPT ![s] =
                [@ EXCEPT !.name = "transfer_call",
                          !.listing_id = None,
                          !.backend = dial,
                          !.lead_id = NoId,
                          !.spoken = IF dial = "ok" THEN MsgTransferring
                                     ELSE MsgTransferFailed,
                          !.escaped = FALSE,
                          !.legs = IF dial \in {"ok", "close_raises"}
                                   THEN @ + 1 ELSE @]]
    /\ tool' = [tool EXCEPT ![s] = ToolIdle]
    /\ UNCHANGED <<pc, caller_phone, dealer_id, dealer_voice_agent_id, agent,
                   fin, recording_enabled, storeVars, effects, end_signals,
                   captured, lookup, answer>>
    /\ UNCHANGED <<dealer_staff, access_logs, now, reply, attempts>>

vars == <<callVars, storeVars, historyVars, authVars>>

Init == CallInit /\ StaffInit /\ lookup = LookupBlank /\ answer = AnswerBlank

\* Calls that run concurrently.
Next ==
    \E s \in Sessions :
        \/ Start(s, NarrowInputs)
        \/ CreateCallLog(s, NarrowInputs)
        \/ StartRecording(s, NarrowInputs)
        \/ SessionStart(s, NarrowInputs)
        \/ CaptureLead(s, NarrowInputs)
        \/ SessionEnd(s, NarrowInputs)
        \/ FinStopRecording(s, NarrowInputs)
        \/ FinBillingRead(s)
        \/ FinBillingWrite(s)
        \/ FinLeadUpdate(s)
        \/ FinCallLogUpdate(s)
        \/ FinCleanup(s)

Spec == Init /\ [][Next]_vars

\* One call alone, over the wide inputs.
NextCall ==
    \/ Start(1, WideInputs)
    \/ CreateCallLog(1, WideInputs)
    \/ StartRecording(1, WideInputs)
    \/ SessionStart(1, WideInputs)
    \/ CaptureLead(1, WideInputs)
    \/ SessionEnd(1, WideInputs)
    \/ DuplicateEnd(1)
    \/ FinStopRecording(1, WideInputs)
    \/ FinBillingRead(1)
    \/ FinBillingWrite(1)
    \/ FinLeadUpdate(1)
    \/ FinCallLogUpdate(1)
    \/ FinCleanup(1)

CallSpec == Init /\ [][NextCall]_vars

\* The calls of `live` in conversation on the lines of the dealers and on the
\* main line, each with its agent as SessionStart leaves it, the other calls
\* not begun; staff rows with and without a lock, the first with failed
\* attempts on record.
AuthInit(live, in) ==
    /\ pc = [s \in Sessions |-> IF s \in live THEN "active" ELSE "idle"]
    /\ caller_phone = [s \in Sessions |-> IF s \in live THEN "c1" ELSE None]
    /\ dealer_voice_agent_id \in [Sessions -> {"va1", "va2", None}]
    /\ \A s \in Sessions \ live : dealer_voice_agent_id[s] = None
    /\ dealer_id = [s \in Sessions |->
                      IF dealer_voice_agent_id[s] # None
                      THEN dealer_voice_agents[dealer_voice_agent_id[s]].dealer_id
                      ELSE None]
    /\ active_calls = [s \in live |->
                         [ lead_id |-> NoId, egress_id |-> NoId,
                           call_log_id |-> NoId, caller_phone |-> "c1",
                           dealer_id |-> dealer_id[s],
                           dealer_voice_agent_id |-> dealer_voice_agent_id[s],
                           transferred |-> FALSE ]]
    /\ agent = [s \in Sessions |->
                  [AgentBlank EXCEPT !.staff_auth_tools = HasStaffAuthTools(dealer_id[s])]]
    /\ fin = [s \in Sessions |-> FinBlank]
    /\ recording_enabled = FALSE
    /\ minutes_used = MinutesUsedInit
    /\ leads = <<>>
    /\ call_logs = <<>>
    /\ effects = [s \in Sessions |-> EffectsBlank]
    /\ end_signals = [s \in Sessions |-> 0]
    /\ captured = [s \in Sessions |-> 0]
    /\ last_tool = [s \in Sessions |-> ToolBlank]
    /\ lookup = LookupBlank
    /\ answer = AnswerBlank
    /\ \E lock1 \in {NoTime, MaxNow}, lock2 \in in.locks :
         dealer_staff =
            [id \in StaffIds |->
                IF id = "st1" THEN StaffRowInit(lock1, 2)
                ELSE IF id = "st2" THEN StaffRowInit(lock2, 0)
                ELSE StaffRowInit(NoTime, 0)]
    /\ access_logs = <<>>
    /\ now = 1
    /\ tool = [s \in Sessions |-> ToolIdle]
    /\ reply = [s \in Sessions |->
                  [ tool |-> "none", name |-> <<>>, pin |-> None,
                    query_type |-> None, message |-> None, granted |-> FALSE,
                    raised |-> FALSE, was_authenticated |-> FALSE,
                    staff_before |-> None, picked |-> None,
                    select_time |-> NoTime, data_read |-> FALSE ]]
    /\ attempts = [s \in Sessions |-> 0]

\* Calls that use the staff tools concurrently.
NextAuth ==
    \/ \E s \in Sessions :
          \/ VerifyStaffPin(s, NarrowInputs)
          \/ VerifyLogFailure(s)
          \/ VerifyUpdateAccess(s)
          \/ VerifyLogSuccess(s)
          \/ QueryInternalData(s, NarrowInputs)
    \/ Tick

AuthSpec == AuthInit(Sessions, NarrowInputs) /\ [][NextAuth]_vars

\* One call alone that uses the staff tools, over the wide inputs.
NextStaff ==
    \/ VerifyStaffPin(1, WideInputs)
    \/ VerifyLogFailure(1)
    \/ VerifyUpdateAccess(1)
    \/ VerifyLogSuccess(1)
    \/ QueryInternalData(1, WideInputs)
    \/ Tick

StaffSpec == AuthInit({1}, WideInputs) /\ [][NextStaff]_vars

\* One call alone to a number that no row of dealer_voice_agents carries.
UnregisteredInputs ==
    [WideInputs EXCEPT !.dialed = {PhoneUnknown, Sip(PhoneUnknown)}]

NextUnregistered ==
    \/ Start(1, UnregisteredInputs)
    \/ CreateCallLog(1, UnregisteredInputs)
    \/ StartRecording(1, UnregisteredInputs)
    \/ SessionStart(1, UnregisteredInputs)
    \/ CaptureLead(1, UnregisteredInputs)
    \/ SessionEnd(1, UnregisteredInputs)
    \/ FinStopRecording(1, UnregisteredInputs)
    \/ FinBillingRead(1)
    \/ FinLeadUpdate(1)
    \/ FinCallLogUpdate(1)
    \/ FinCleanup(1)

UnregisteredSpec == Init /\ [][NextUnregistered]_vars

\* ------------------------------------------- resolution on its own
BareNumbers ==
    {PhoneA, PhoneAAlt, PhoneB, PhoneBAlt, PhoneInactive, PhoneUnknown}

\* A number as the platform may hand it over: bare, with the sip: scheme,
\* with a host, with both.
Dressed(n) == {n, SipPrefix \o n, n \o <<"@", "h">>, Sip(n)}

ResolveInit ==
    /\ CallInit
    /\ \E n \in BareNumbers, db \in StoreAnswers :
          \E phone_number \in Dressed(n) :
             lookup = [LookupBlank EXCEPT !.phone_number = phone_number,
                                          !.db = db]
    /\ answer = AnswerBlank
    /\ StaffInit

\* tools.py 78-138: get_dealer_voice_agent_by_phone is called and returns.
Resolve ==
    /\ ~lookup.done
    /\ lookup' = [lookup EXCEPT
                     !.result = get_dealer_voice_agent_by_phone(
                                    lookup.phone_number, lookup.db),
                     !.done = TRUE]
    /\ UNCHANGED <<callVars, storeVars, effects, end_signals, captured,
                   last_tool, answer, authVars>>

ResolveSpec == ResolveInit /\ [][Resolve]_vars

\* The number of the dealer voice agent that is not active, resolved on its
\* own and dialed by one call, in the form the row carries and in the other
\* national form.
PhoneInactiveAlt == Tail(PhoneInactive)

InactiveInputs ==
    [WideInputs EXCEPT !.dialed = {PhoneInactive, Sip(PhoneInactive),
                                   PhoneInactiveAlt, Sip(PhoneInactiveAlt)},
                       !.durations = {0, 61},
                       !.intents = {None},
                       !.equipment = {None}]

InactiveInit ==
    /\ CallInit
    /\ StaffInit
    /\ answer = AnswerBlank
    /\ \E phone_number \in {PhoneInactive, PhoneInactiveAlt}, db \in StoreAnswers :
          lookup = [LookupBlank EXCEPT !.phone_number = phone_number, !.db = db]

NextInactive ==
    \/ Resolve
    \/ Start(1, InactiveInputs)
    \/ CreateCallLog(1, InactiveInputs)
    \/ StartRecording(1, InactiveInputs)
    \/ SessionStart(1, InactiveInputs)
    \/ CaptureLead(1, InactiveInputs)
    \/ SessionEnd(1, InactiveInputs)
    \/ FinStopRecording(1, InactiveInputs)
    \/ FinBillingRead(1)
    \/ FinLeadUpdate(1)
    \/ FinCallLogUpdate(1)
    \/ FinCleanup(1)

InactiveSpec == InactiveInit /\ [][NextInactive]_vars

\* One call alone whose resolution finds no dealer: the first request to the
\* store fails, or the second does for a number in the other national form,
\* or the number is absent or that of no row.
StoreDownInputs ==
    [WideInputs EXCEPT !.stores = {db \in StoreAnswers : db.down1}]
SecondDownInputs ==
    [WideInputs EXCEPT !.stores = {db \in StoreAnswers : ~db.down1 /\ db.down2},
                       !.dialed = {PhoneAAlt, PhoneBAlt}]
UnmatchedInputs ==
    [WideInputs EXCEPT !.dialed = {<<>>, PhoneUnknown, Sip(PhoneUnknown)}]

NextFallback ==
    \/ Start(1, StoreDownInputs)
    \/ Start(1, SecondDownInputs)
    \/ Start(1, UnmatchedInputs)
    \/ CreateCallLog(1, WideInputs)
    \/ StartRecording(1, WideInputs)
    \/ SessionStart(1, WideInputs)
    \/ CaptureLead(1, WideInputs)
    \/ SessionEnd(1, WideInputs)
    \/ FinStopRecording(1, WideInputs)
    \/ FinBillingRead(1)
    \/ FinLeadUpdate(1)
    \/ FinCallLogUpdate(1)
    \/ FinCleanup(1)

FallbackSpec == Init /\ [][NextFallback]_vars

\* One recorded call alone with its background job.
JobInputs ==
    [WideInputs EXCEPT !.phones = {"c1"},
                       !.dialed = {PhoneA},
                       !.stores = {[down1 |-> FALSE, down2 |-> FALSE,
                                    strict |-> FALSE]},
                       !.durations = {61},
                       !.listing = {None},
                       !.intents = {None},
                       !.equipment = {None},
                       !.recorded = {TRUE},
                       !.stops = {[url |-> "url", duration |-> 5],
                                  [url |-> "url", duration |-> 6],
                                  [url |-> None, duration |-> NoDuration]}]

NextJob ==
    \/ Start(1, JobInputs)
    \/ CreateCallLog(1, JobInputs)
    \/ StartRecording(1, JobInputs)
    \/ SessionStart(1, JobInputs)
    \/ CaptureLead(1, JobInputs)
    \/ SessionEnd(1, JobInputs)
    \/ DuplicateEnd(1)
    \/ FinStopRecording(1, JobInputs)
    \/ FinBillingRead(1)
    \/ FinBillingWrite(1)
    \/ FinLeadUpdate(1)
    \/ FinCallLogUpdate(1)
    \/ FinCleanup(1)
    \/ JobTranscribe(1)
    \/ JobSummarize(1)

JobSpec == Init /\ [][NextJob]_vars

\* =================================================================
\* Properties
\* =================================================================
Ended == {"done", "returned", "crashed", "unconnected"}
AllEnded == \A s \in Sessions : pc[s] \in Ended

\* The minutes call s has written onto row va.
WrittenBy(s, va) ==
    IF effects[s].minutes_writes > 0 /\ fin[s].dealer_voice_agent_id = va
    THEN effects[s].minutes_billed ELSE 0

\* The minutes call s owes to row va once it is done.
OwedBy(s, va) ==
    IF pc[s] = "done" /\ dealer_voice_agent_id[s] = va
    THEN fin[s].call_minutes ELSE 0

RECURSIVE SumWritten(_, _)
SumWritten(n, va) ==
    IF n = 0 THEN 0 ELSE WrittenBy(n, va) + SumWritten(n - 1, va)

RECURSIVE SumOwed(_, _)
SumOwed(n, va) ==
    IF n = 0 THEN 0 ELSE OwedBy(n, va) + SumOwed(n - 1, va)

\* C1: when two or more calls of one dealer line have run
\* increment_dealer_minutes to its update and all calls have ended, the
\* row's minutes_used is its initial value plus the sum of the increments
\* (no update is lost), whatever the order of their selects and updates.
C1_NoLostUpdate ==
    \A va \in VoiceAgentIds :
        (/\ AllEnded
         /\ Cardinality({s \in Sessions : WrittenBy(s, va) > 0}) >= 2)
        => minutes_used[va] = MinutesUsedInit[va] + SumWritten(NumSessions, va)

\* C2: once the calls have ended, every completed call of a dealer line has
\* added its minutes to that line's minutes_used exactly once, and a call of
\* the main line has changed no row: each row holds its initial value plus the
\* minutes of the completed calls of its line.
C2_AccruedExactlyOnce ==
    AllEnded =>
        \A va \in VoiceAgentIds :
            minutes_used[va] = MinutesUsedInit[va] + SumOwed(NumSessions, va)

\* The least n with 60 * n >= d.
CeilMinutes(d) == CHOOSE n \in 0..d : 60 * n >= d /\ \A m \in 0..(n - 1) : 60 * m < d

\* C3: in finalization the billing minutes of a call are max(1, ceil(d / 60))
\* for its final duration d, and that is the count passed to
\* increment_dealer_minutes; 0 s and 60 s bill 1 minute, 61 s bill 2.
C3_BillingMinutes ==
    \A s \in Sessions :
        pc[s] \in (Finalizing \ {"fin_stop_recording"}) \cup {"done"} =>
            LET d == fin[s].call_duration
                expected == IF CeilMinutes(d) >= 1 THEN CeilMinutes(d) ELSE 1
            IN  /\ fin[s].call_minutes = expected
                /\ effects[s].increment_calls > 0 =>
                       effects[s].minutes_billed = expected
                /\ d = 0 => fin[s].call_minutes = 1
                /\ d = 60 => fin[s].call_minutes = 1
                /\ d = 61 => fin[s].call_minutes = 2

\* A call of a dealer line that lasted 61 s has billed 2 minutes.
C3_Witness ==
    \E s \in Sessions :
        /\ effects[s].minutes_writes = 1
        /\ fin[s].call_duration = 61
        /\ effects[s].minutes_billed = 2

\* C4: every call that has opened its entry in active_calls is finalized,
\* however it ends: a call whose entrypoint has ended has billed its dealer
\* line and has left no entry in active_calls.
C4_OpenedCallFinalized ==
    \A s \in Sessions :
        pc[s] \in {"done", "crashed"} =>
            /\ s \notin DOMAIN active_calls
            /\ dealer_voice_agent_id[s] # None => effects[s].increment_calls = 1

CredentialsOf(dealer, pin) ==
    {id \in StaffIds : /\ staff_rows[id].is_active
                       /\ staff_rows[id].dealer_id = dealer
                       /\ staff_rows[id].voice_pin = pin}

NameWithin(name, id) ==
    \E i \in 0..(Len(staff_rows[id].name) - Len(name)) :
        \A k \in 1..Len(name) :
            Lower(<<name[k]>>) = Lower(<<staff_rows[id].name[i + k]>>)

Candidates(dealer, name, pin) ==
    {id \in CredentialsOf(dealer, pin) : NameWithin(name, id)}

LockedAt(id, time) ==
    dealer_staff[id].locked_until # NoTime /\ dealer_staff[id].locked_until > time

VerifyAnswered(s) == reply[s].tool = "verify_staff_pin"
QueryAnswered(s) == reply[s].tool = "query_internal_data"

\* The answer left the agent's authentication as it was.
AuthUntouched(s) ==
    /\ agent[s].is_staff_authenticated = reply[s].was_authenticated
    /\ agent[s].authenticated_staff = reply[s].staff_before

\* C6: on the line of a dealer, whatever the name and the PIN, the staff
\* member a call is authenticated as is a credential of that dealer with the
\* PIN given, and a PIN that no active credential of that dealer carries
\* (a PIN of another dealer included) is denied and authenticates nobody.
C6_NoCrossTenantPin ==
    \A s \in Sessions :
        /\ agent[s].authenticated_staff # None =>
               staff_rows[agent[s].authenticated_staff].dealer_id = dealer_id[s]
        /\ (VerifyAnswered(s) /\ reply[s].granted) =>
               /\ reply[s].picked # None
               /\ staff_rows[reply[s].picked].dealer_id = dealer_id[s]
               /\ staff_rows[reply[s].picked].voice_pin = reply[s].pin
        /\ (VerifyAnswered(s) /\ CredentialsOf(dealer_id[s], reply[s].pin) = {}) =>
               ~reply[s].granted /\ AuthUntouched(s)

\* On the line of dealer dA a caller gave the name and the PIN of a
\* credential of dealer dB and was denied.
C6_Witness ==
    \E s \in Sessions :
        /\ dealer_id[s] = "dA"
        /\ VerifyAnswered(s)
        /\ reply[s].pin = staff_rows["st3"].voice_pin
        /\ NameWithin(reply[s].name, "st3")
        /\ reply[s].message = MsgInvalidPin
        /\ ~agent[s].is_staff_authenticated

\* The case of C7: the PIN is that of a credential of the line's dealer and
\* the name is within the name of none of them.
NameMismatch(s) ==
    /\ VerifyAnswered(s)
    /\ CredentialsOf(dealer_id[s], reply[s].pin) # {}
    /\ Candidates(dealer_id[s], reply[s].name, reply[s].pin) = {}

\* C7 as written: a PIN that matches with a name that is within no matching
\* credential's name is denied with the 'name and PIN combination' message and
\* leaves the flag and the staff reference as they were.
C7_AsWritten ==
    \A s \in Sessions :
        NameMismatch(s) =>
            /\ reply[s].message = MsgNameMismatch
            /\ ~reply[s].granted
            /\ AuthUntouched(s)

\* C7: a PIN that matches with a name that is within no matching credential's
\* name is denied and leaves the flag and the staff reference as they were;
\* the answer is the 'name and PIN combination' message, or the
\* trouble-verifying message when a request of the attempt to the store fails.
C7_NameMismatchDenied ==
    \A s \in Sessions :
        NameMismatch(s) =>
            /\ ~reply[s].granted
            /\ AuthUntouched(s)
            /\ reply[s].message = IF reply[s].raised THEN MsgTrouble
                                  ELSE MsgNameMismatch

\* A caller gave a PIN of the line's dealer with a name of no credential and
\* got the 'name and PIN combination' message.
C7_Witness ==
    \E s \in Sessions :
        /\ NameMismatch(s)
        /\ reply[s].message = MsgNameMismatch
        /\ ~agent[s].is_staff_authenticated

\* A query is answered with data only in a call that was authenticated
\* before it, and a call whose only use of the staff tools is a query gets no
\* data, whatever the other calls have done.
OwnSessionOnly ==
    \A s \in Sessions :
        /\ (QueryAnswered(s) /\ reply[s].data_read) =>
               reply[s].was_authenticated /\ reply[s].staff_before # None
        /\ (QueryAnswered(s) /\ attempts[s] = 1) => ~reply[s].data_read
        /\ agent[s].is_staff_authenticated =>
               \/ VerifyAnswered(s) /\ reply[s].granted
               \/ reply[s].was_authenticated

\* C8 as written: a correct PIN with a name that is within the name of an
\* unlocked credential, letter case aside, succeeds and sets the flag in
\* that call; queries succeed only in the call that authenticated.
C8_AsWritten ==
    /\ \A s \in Sessions :
          (/\ VerifyAnswered(s)
           /\ \E id \in Candidates(dealer_id[s], reply[s].name, reply[s].pin) :
                 ~LockedAt(id, reply[s].select_time))
          => reply[s].granted /\ agent[s].is_staff_authenticated
    /\ OwnSessionOnly

\* C8: a correct PIN with a name that is within the name of a credential,
\* letter case aside, succeeds and sets the flag in that call when every
\* credential of the dealer that matches the PIN and the name is unlocked and
\* no request of the attempt to the store fails; queries succeed only in the
\* call that authenticated.
C8_UnlockedMatchSucceeds ==
    /\ \A s \in Sessions :
          LET matching == Candidates(dealer_id[s], reply[s].name, reply[s].pin)
          IN  (/\ VerifyAnswered(s)
               /\ matching # {}
               /\ \A id \in matching : ~LockedAt(id, reply[s].select_time)
               /\ ~reply[s].raised)
              => /\ reply[s].granted
                 /\ agent[s].is_staff_authenticated
                 /\ agent[s].authenticated_staff \in matching
    /\ OwnSessionOnly

\* One call has authenticated and read data; another call on the line of the
\* same dealer has not, and its query was turned away.
C8_Witness ==
    \E s, t \in Sessions :
        /\ s # t
        /\ dealer_id[s] = dealer_id[t]
        /\ agent[s].is_staff_authenticated
        /\ QueryAnswered(s) /\ reply[s].data_read
        /\ ~agent[t].is_staff_authenticated
        /\ QueryAnswered(t) /\ reply[t].message = MsgAuthFirst

\* C9 as written: query_internal_data returns data only to an authenticated
\* call; without authentication it answers with the authenticate-first
\* message and reads no data.
C9_AsWritten ==
    \A s \in Sessions :
        QueryAnswered(s) =>
            /\ reply[s].data_read =>
                   reply[s].was_authenticated /\ reply[s].staff_before # None
            /\ ~reply[s].was_authenticated =>
                   reply[s].message = MsgAuthFirst /\ ~reply[s].data_read

\* C9: query_internal_data returns data only to an authenticated call;
\* without authentication it reads no data and answers with the
\* authenticate-first message on the line of a dealer and with the
\* not-available message on a line without a dealer.
C9_QueryNeedsAuthentication ==
    \A s \in Sessions :
        QueryAnswered(s) =>
            /\ reply[s].data_read =>
                   reply[s].was_authenticated /\ reply[s].staff_before # None
            /\ ~reply[s].was_authenticated =>
                   /\ ~reply[s].data_read
                   /\ reply[s].message = IF dealer_id[s] # None THEN MsgAuthFirst
                                         ELSE MsgNotAvailable

\* A call on the line of a dealer asked for data without authentication and
\* was told to authenticate first.
C9_Witness ==
    \E s \in Sessions :
        /\ QueryAnswered(s)
        /\ dealer_id[s] # None
        /\ ~reply[s].was_authenticated
        /\ reply[s].message = MsgAuthFirst
        /\ ~reply[s].data_read

\* C10: an answer of verify_staff_pin for a credential that was locked when
\* it was looked up is the denial for a locked account; the step that gives
\* it leaves the staff rows (failed_attempts, access_count, last_access_at)
\* and the agent's authentication as they were.
C10_LockedDenied ==
    [][\A s \in Sessions :
          (/\ reply'[s] # reply[s]
           /\ reply'[s].tool = "verify_staff_pin"
           /\ reply'[s].picked # None
           /\ LockedAt(reply'[s].picked, reply'[s].select_time))
          => /\ ~reply'[s].granted
             /\ reply'[s].message = MsgLocked
             /\ dealer_staff' = dealer_staff
             /\ agent'[s] = agent[s]]_vars

\* A caller gave the name and the PIN of the locked credential st1, which has
\* failed attempts on record, and was denied.
C10_Witness ==
    \E s \in Sessions :
        /\ VerifyAnswered(s)
        /\ reply[s].picked = "st1"
        /\ reply[s].message = MsgLocked
        /\ dealer_staff["st1"].failed_attempts = 2
        /\ dealer_staff["st1"].access_count = 0
        /\ ~agent[s].is_staff_authenticated

\* ------------------------------------------------------ the leads
\* The precedence of the owner of a lead: the dealer of the line, then the
\* owner of the listing, then nobody.
ExpectedOwner(line_dealer, listing_id) ==
    IF line_dealer # None THEN line_dealer
    ELSE IF listing_id \in ListingIds THEN listings[listing_id].user_id
    ELSE None

CaptureAnswered(s) == last_tool[s].name = "capture_lead"

\* C11: for every dealer of the line and every listing id, a capture_lead
\* whose insert the store accepts leaves a lead owned by the dealer of the
\* line if there is one, else by the owner of the listing if a listing id is
\* given and found, else by nobody.
C11_LeadOwnerPrecedence ==
    \A s \in Sessions :
        (CaptureAnswered(s) /\ last_tool[s].backend = "ok") =>
            /\ last_tool[s].lead_id \in DOMAIN leads
            /\ leads[last_tool[s].lead_id].user_id =
                   ExpectedOwner(dealer_id[s], last_tool[s].listing_id)

\* The leads call s has inserted.
LeadsOf(s) == {LeadId(s, k) : k \in 1..captured[s]}

\* C12 as written: a call to a number of no dealer runs under the global
\* settings and none of its leads has an owner.
C12_AsWritten ==
    \A s \in Sessions :
        pc[s] # "idle" =>
            /\ dealer_id[s] = None /\ dealer_voice_agent_id[s] = None
            /\ \A id \in LeadsOf(s) : leads[id].user_id = None

\* C12: a call to a number of no dealer runs under the global settings (no
\* dealer, no dealer voice agent, no staff tools), and the line gives none of
\* its leads an owner: a lead's owner is the owner of the listing it refers
\* to when that listing is found, and nobody otherwise.
C12_UnregisteredIsGlobal ==
    \A s \in Sessions :
        pc[s] # "idle" =>
            /\ dealer_id[s] = None /\ dealer_voice_agent_id[s] = None
            /\ ~agent[s].staff_auth_tools
            /\ \A id \in LeadsOf(s) :
                  leads[id].user_id =
                      IF leads[id].listing_id \in ListingIds
                      THEN listings[leads[id].listing_id].user_id ELSE None

\* A call to a number of no dealer has inserted a lead without a listing,
\* which has no owner.
C12_Witness ==
    \E s \in Sessions :
        /\ pc[s] = "active"
        /\ 1 \in DOMAIN leads
        /\ LeadsOf(s) = {1}
        /\ leads[1].listing_id = None
        /\ leads[1].user_id = None

\* ------------------------------------------------------ resolution
\* C13: for every number handed over with the sip: scheme, with a host after
\* an @, or with both, get_dealer_voice_agent_by_phone returns what it returns
\* for the bare number under the same answers of the store.
C13_SchemeAndHostStripped ==
    lookup.done =>
        \A n \in BareNumbers :
            lookup.phone_number \in Dressed(n) \ {n} =>
                lookup.result = get_dealer_voice_agent_by_phone(n, lookup.db)

\* "sip:+15551234567@h" has resolved to the row registered as +15551234567.
C13_Witness ==
    /\ lookup.done
    /\ lookup.phone_number = Sip(PhoneA)
    /\ lookup.result = "va1"

\* The other national form of a number: with the + for one without, without
\* it for one with.
OtherForm(n) == IF Head(n) = "+" THEN Tail(n) ELSE <<"+">> \o n

\* C14: with the store answering, a number given in the form 1NNNNNNNNNN
\* resolves to the active row registered as +1NNNNNNNNNN, and a number
\* given as +1NNNNNNNNNN to the active row registered as 1NNNNNNNNNN.
C14_AlternateFormFound ==
    (lookup.done /\ ~lookup.db.down1 /\ ~lookup.db.down2) =>
        \A va \in VoiceAgentIds :
            (/\ dealer_voice_agents[va].is_active
             /\ lookup.phone_number = OtherForm(dealer_voice_agents[va].phone_number))
            => lookup.result = va

\* C15: when the lookup of the store fails, when no row matches, or when the
\* dialed number is absent, nothing is raised into entrypoint: the call has
\* no dealer and no dealer voice agent, it runs under the global settings, and
\* if its entrypoint ends on an exception, that is after the entry of
\* active_calls was opened, not in the resolution.
C15_ResolutionFallsBack ==
    \A s \in Sessions :
        pc[s] # "idle" =>
            /\ dealer_id[s] = None
            /\ dealer_voice_agent_id[s] = None
            /\ pc[s] = "crashed" => s \in DOMAIN active_calls
            /\ s \in DOMAIN active_calls =>
                   /\ active_calls[s].dealer_id = None
                   /\ active_calls[s].dealer_voice_agent_id = None

\* A call whose resolution found no dealer is in conversation under the
\* global settings.
C15_Witness ==
    \E s \in Sessions :
        /\ pc[s] = "active"
        /\ s \in DOMAIN active_calls
        /\ dealer_id[s] = None
        /\ ~agent[s].staff_auth_tools

\* ------------------------------------------------------ recording
\* The start of the recording of call s failed: recording is configured and
\* the finally block found no egress id.
RecordingStartFailed(s) ==
    /\ recording_enabled
    /\ pc[s] \in Finalizing \cup {"done"}
    /\ fin[s].egress_id = NoId

\* C16: in a call whose recording failed to start, every step of the
\* finalization keeps the duration and the minutes computed from the wall
\* clock when the call ended, stop_recording is never invoked, nothing is
\* transcribed, and neither the call's leads nor its call log row get a
\* recording URL.
C16_NoRecordingNoUrl ==
    [][\A s \in Sessions :
          RecordingStartFailed(s)' =>
             /\ pc[s] \in Finalizing =>
                   /\ fin'[s].call_duration = fin[s].call_duration
                   /\ fin'[s].call_minutes = fin[s].call_minutes
             /\ fin'[s].call_minutes =
                   (IF CeilMinutes(fin'[s].call_duration) >= 1
                    THEN CeilMinutes(fin'[s].call_duration) ELSE 1)
             /\ fin'[s].recording_url = None
             /\ effects'[s].stop_recording = 0
             /\ effects'[s].transcriptions = 0
             /\ \A id \in LeadsOf(s)' : leads'[id].call_recording_url = None
             /\ s \in DOMAIN call_logs' => call_logs'[s].recording_url = None]_vars

\* A call on a dealer line whose recording failed to start has gone through
\* its lifecycle and has billed its minutes, updated its lead and its call
\* log row.
C16_Witness ==
    \E s \in Sessions :
        /\ RecordingStartFailed(s)
        /\ pc[s] = "done"
        /\ effects[s].minutes_writes = 1
        /\ effects[s].lead_updates = 1
        /\ effects[s].log_updates = 1
        /\ call_logs[s].status = "completed"
        /\ call_logs[s].duration_seconds = 61

\* ------------------------------------------------------ transfer_call
\* One call alone, on the main line or a dealer's, that asks for transfers.
TransferInputs ==
    [NarrowInputs EXCEPT !.dialed = {<<>>, PhoneA, PhoneB, PhoneUnknown},
                         !.transfers = TransferSettings,
                         !.trunks = BOOLEAN,
                         !.dials = {"ok", "raise", "close_raises"}]

NextTransfer ==
    \/ Start(1, TransferInputs)
    \/ CreateCallLog(1, TransferInputs)
    \/ StartRecording(1, TransferInputs)
    \/ SessionStart(1, TransferInputs)
    \/ TransferCall(1, TransferInputs)
    \/ SessionEnd(1, TransferInputs)
    \/ FinStopRecording(1, TransferInputs)
    \/ FinBillingRead(1)
    \/ FinBillingWrite(1)
    \/ FinLeadUpdate(1)
    \/ FinCallLogUpdate(1)
    \/ FinCleanup(1)

TransferSpec == Init /\ [][NextTransfer]_vars

TransferRefusals ==
    {MsgTransferUnavailable, MsgTransferUnable, MsgTransferNotConfigured,
     MsgTransferFailed}

\* The tenant of call s permits transfers and has a valid transfer number.
TransferPermitted(s) ==
    /\ dealer_id[s] # None
    /\ agent[s].can_transfer
    /\ agent[s].transfer_number \notin {NoNumber, <<>>}
    /\ validate_e164_phone(agent[s].transfer_number)

\* C17: a call has a transfer leg only if its tenant permits transfers and
\* has a transfer number that validate_e164_phone accepts; otherwise, and so
\* on the main line, transfer_call creates no leg, marks nothing and returns
\* a spoken refusal.  Whatever it does, it returns a refusal or the
\* announcement of the transfer.
C17_TransferOnlyIfPermitted ==
    \A s \in Sessions :
        /\ last_tool[s].legs > 0 => TransferPermitted(s)
        /\ (s \in DOMAIN active_calls /\ active_calls[s].transferred)
               => TransferPermitted(s)
        /\ last_tool[s].name = "transfer_call" =>
               /\ last_tool[s].spoken \in TransferRefusals \cup {MsgTransferring}
               /\ ~last_tool[s].escaped
               /\ ~TransferPermitted(s) =>
                      /\ last_tool[s].legs = 0
                      /\ last_tool[s].spoken \in TransferRefusals

\* A call on a dealer's line has a transfer leg and is marked as transferred.
C17_Witness ==
    \E s \in Sessions :
        /\ last_tool[s].name = "transfer_call"
        /\ last_tool[s].legs = 1
        /\ last_tool[s].spoken = MsgTransferring
        /\ active_calls[s].transferred

\* A call whose tenant permits transfers to a number that is not valid has
\* been refused.
C17_RefusedWitness ==
    \E s \in Sessions :
        /\ last_tool[s].name = "transfer_call"
        /\ agent[s].can_transfer
        /\ agent[s].transfer_number = TransferNumberBad
        /\ last_tool[s].spoken = MsgTransferUnable

\* ------------------------------------------------------ finalization
\* The finally block of call s has run all its steps but the cleanup.
StepsRun(s) == pc[s] \in {"fin_cleanup", "done"}

\* C18: whichever steps of the finally block fail, each of them whose
\* condition holds is attempted once: the stop of the recording when the call
\* has an egress id, the accrual of minutes when it has a dealer voice agent,
\* the update of the lead when it has a lead and a recording URL or a
\* duration, the update of the call log when it has a call log id.
C18_StepsIndependent ==
    \A s \in Sessions :
        StepsRun(s) =>
            /\ effects[s].stop_recording =
                   (IF fin[s].egress_id # NoId THEN 1 ELSE 0)
            /\ effects[s].increment_calls =
                   (IF fin[s].dealer_voice_agent_id # None THEN 1 ELSE 0)
            /\ effects[s].lead_updates =
                   (IF /\ fin[s].lead_id # NoId
                       /\ (fin[s].recording_url # None \/ fin[s].call_duration # 0)
                    THEN 1 ELSE 0)
            /\ effects[s].log_updates =
                   (IF fin[s].call_log_id # NoId THEN 1 ELSE 0)

\* The stop of the recording, the accrual and the update of the call log of
\* a call have failed, and each of the four steps was attempted.
C18_Witness ==
    \E s \in Sessions :
        /\ pc[s] = "done"
        /\ effects[s].stop_recording = 1
        /\ fin[s].recording_url = None
        /\ effects[s].increment_calls = 1
        /\ effects[s].minutes_writes = 0
        /\ effects[s].lead_updates = 1
        /\ effects[s].log_updates = 1
        /\ call_logs[s].status = "in_progress"

\* The accrual of a call has succeeded though the update of its call log
\* failed.
C18_BilledWitness ==
    \E s \in Sessions :
        /\ pc[s] = "done"
        /\ effects[s].minutes_writes = 1
        /\ effects[s].log_updates = 1
        /\ call_logs[s].status = "in_progress"

\* ------------------------------------------------------------- tools
\* One call alone, on the main line or a dealer's, that uses every tool.
ToolInputs ==
    [NarrowInputs EXCEPT
        !.dialed = {<<>>, PhoneA},
        !.stores = {db \in StoreAnswers : ~db.down1 /\ ~db.down2},
        !.durations = {61},
        !.listing = {None, "L1", "Lx"},
        !.outcomes = {"ok", "no_data", "raise"},
        !.transfers = {NoTransfer,
                       [can_transfer |-> TRUE, transfer_number |-> TransferNumber]},
        !.trunks = BOOLEAN,
        !.dials = {"ok", "raise"}]

NextTool ==
    \/ Start(1, ToolInputs)
    \/ CreateCallLog(1, ToolInputs)
    \/ StartRecording(1, ToolInputs)
    \/ SessionStart(1, ToolInputs)
    \/ SearchInventory(1, ToolInputs)
    \/ GetListingDetails(1, ToolInputs)
    \/ CaptureLead(1, ToolInputs)
    \/ VerifyStaffPin(1, ToolInputs)
    \/ VerifyLogFailure(1)
    \/ VerifyUpdateAccess(1)
    \/ VerifyLogSuccess(1)
    \/ QueryInternalData(1, ToolInputs)
    \/ TransferCall(1, ToolInputs)
    \/ SessionEnd(1, ToolInputs)

ToolSpec == Init /\ [][NextTool]_vars

\* What search_inventory, get_listing_details, capture_lead and
\* transfer_call say.
CallerStrings ==
    {MsgNoListingsDealer, MsgNoListings, MsgFound, MsgSearchTrouble,
     MsgListingNotFound, MsgDetails, MsgDetailsTrouble,
     MsgCaptured, MsgNotedTeam, MsgNotedSoon,
     MsgTransferUnavailable, MsgTransferUnable, MsgTransferNotConfigured,
     MsgTransferFailed, MsgTransferring}

\* What verify_staff_pin and query_internal_data say.
StaffStrings ==
    {MsgNoStaffLine, MsgInvalidPin, MsgNameMismatch, MsgLocked, MsgTrouble,
     MsgGranted, MsgNotAvailable, MsgAuthFirst, MsgAuthFirstTools,
     MsgUnknownQuery, MsgQueryTrouble, MsgData}

\* A step of a tool of call s.
ToolStep(s) ==
    \/ last_tool'[s] # last_tool[s]
    \/ reply'[s] # reply[s]
    \/ tool'[s] # tool[s]

\* C19: whatever the store and the platform answer, a tool that returns has
\* returned one of its spoken strings, no exception has left it, and no step
\* of a tool changes where the call stands.
C19_ToolsAnswer ==
    [][\A s \in Sessions :
          ToolStep(s) =>
             /\ pc'[s] = pc[s]
             /\ last_tool'[s] # last_tool[s] =>
                   /\ last_tool'[s].spoken \in CallerStrings
                   /\ ~last_tool'[s].escaped
             /\ (\/ reply'[s] # reply[s]
                 \/ tool[s].name # "none" /\ tool'[s].name = "none") =>
                   /\ reply'[s].tool # "none"
                   /\ reply'[s].message \in StaffStrings]_vars

\* A call goes on after the platform has refused a transfer and the store
\* has failed a staff tool: both tools have answered.
C19_Witness ==
    \E s \in Sessions :
        /\ pc[s] = "active"
        /\ last_tool[s].name = "transfer_call"
        /\ last_tool[s].backend = "raise"
        /\ last_tool[s].spoken = MsgTransferFailed
        /\ reply[s].raised
        /\ reply[s].message \in {MsgTrouble, MsgQueryTrouble}

\* ------------------------------------------------------------ status
\* The status of call s: Starting from the connection up to the start of the
\* session, Active while the session runs, Finalizing from the end of the
\* session (Ending) through the finally block, Completed once entrypoint has
\* ended.  Start connects and resolves in one step, so a call that is refused
\* there is Completed the moment it is seen.
Status(s) ==
    CASE pc[s] = "idle" -> "NotBegun"
      [] pc[s] \in {"create_call_log", "start_recording", "session_start"}
             -> "Starting"
      [] pc[s] = "active" -> "Active"
      [] pc[s] \in Finalizing -> "Finalizing"
      [] OTHER -> "Completed"

\* Call s has no call log id, no egress id, no lead id and no captured field.
OptionalFieldsEmpty(s) ==
    /\ s \notin DOMAIN call_logs
    /\ s \in DOMAIN active_calls =>
           /\ active_calls[s].call_log_id = NoId
           /\ active_calls[s].egress_id = NoId
           /\ active_calls[s].lead_id = NoId
    /\ agent[s] = AgentBlank

\* C20: the status of a call changes only from Starting to Active, from
\* Active to Finalizing (through Ending) and from Finalizing to Completed;
\* but a call that fails to connect goes from Starting to Completed, and has
\* then no call log id, no egress id, no lead id and no captured field.
C20_StatusOrder ==
    [][\A s \in Sessions :
          Status(s)' # Status(s) =>
             \/ <<Status(s), Status(s)'>> \in
                    { <<"NotBegun", "Starting">>, <<"Starting", "Active">>,
                      <<"Active", "Finalizing">>, <<"Finalizing", "Completed">> }
             \/ /\ Status(s) \in {"NotBegun", "Starting"}
                /\ Status(s)' = "Completed"
                /\ OptionalFieldsEmpty(s)']_vars

\* ------------------------------------------------- tools after the end
\* One call alone whose session still serves the caller while the finally
\* block runs.
LateInputs ==
    [NarrowInputs EXCEPT !.dialed = {<<>>, PhoneA},
                         !.phones = {None, "c1"},
                         !.intents = {None, "buy"},
                         !.recorded = BOOLEAN]

NextLate ==
    \/ Start(1, LateInputs)
    \/ CreateCallLog(1, LateInputs)
    \/ StartRecording(1, LateInputs)
    \/ SessionStart(1, LateInputs)
    \/ CaptureLead(1, LateInputs)
    \/ SessionEnd(1, LateInputs)
    \/ LateCaptureLead(1, LateInputs)
    \/ FinStopRecording(1, LateInputs)
    \/ FinBillingRead(1)
    \/ FinBillingWrite(1)
    \/ FinLeadUpdate(1)
    \/ FinCallLogUpdate(1)
    \/ FinCleanup(1)

LateSpec == Init /\ [][NextLate]_vars

\* C21: once the end of call s has been triggered, no step changes the
\* captured fields or the authentication state of its agent or the lead id
\* of its entry, and no step inserts a lead or writes to the staff tables;
\* so the finally block writes what was captured before the trigger.
C21_NoToolAfterEnd ==
    [][\A s \in Sessions :
          end_signals[s] > 0 =>
             /\ agent'[s] = agent[s]
             /\ captured'[s] = captured[s]
             /\ DOMAIN leads' = DOMAIN leads
             /\ (s \in DOMAIN active_calls /\ s \in DOMAIN active_calls') =>
                    active_calls'[s].lead_id = active_calls[s].lead_id
             /\ dealer_staff' = dealer_staff
             /\ access_logs' = access_logs]_vars

\* ------------------------------------------------ tools in flight
\* One call alone on a dealer's line that permits transfers; the call may end
\* and be finalized while transfer_call awaits the platform.
InFlightInputs ==
    [NarrowInputs EXCEPT
        !.dialed = {<<>>, PhoneA},
        !.recorded = BOOLEAN,
        !.transfers = {[can_transfer |-> TRUE, transfer_number |-> TransferNumber]},
        !.dials = {"ok", "raise", "close_raises"}]

NextInFlight ==
    \/ Start(1, InFlightInputs)
    \/ CreateCallLog(1, InFlightInputs)
    \/ StartRecording(1, InFlightInputs)
    \/ SessionStart(1, InFlightInputs)
    \/ CaptureLead(1, InFlightInputs)
    \/ TransferDial(1, InFlightInputs)
    \/ TransferReturn(1, InFlightInputs)
    \/ SessionEnd(1, InFlightInputs)
    \/ DuplicateEnd(1)
    \/ FinStopRecording(1, InFlightInputs)
    \/ FinBillingRead(1)
    \/ FinBillingWrite(1)
    \/ FinLeadUpdate(1)
    \/ FinCallLogUpdate(1)
    \/ FinCleanup(1)

InFlightSpec == Init /\ [][NextInFlight]_vars

\* C22: a call that is Completed has no entry in active_calls, and no later
\* step, that of a tool in flight included, puts the entry back or changes
\* the agent or the values the finally block has kept.
C22_CompletedStaysRemoved ==
    [][\A s \in Sessions :
          Status(s)' = "Completed" =>
             /\ s \notin DOMAIN active_calls'
             /\ Status(s) = "Completed" =>
                    /\ agent'[s] = agent[s]
                    /\ fin'[s] = fin[s]]_vars

\* ------------------------------------------- capture_lead, repeated
\* One call alone in which the caller's details are captured more than once.
RecaptureInputs ==
    [NarrowInputs EXCEPT !.dialed = {<<>>, PhoneA},
                         !.names = {"Jane", "Bob"},
                         !.intents = {None, "buy"},
                         !.outcomes = {"ok", "no_data", "raise"},
                         !.again = BOOLEAN]

NextRecapture ==
    \/ Start(1, RecaptureInputs)
    \/ CreateCallLog(1, RecaptureInputs)
    \/ StartRecording(1, RecaptureInputs)
    \/ SessionStart(1, RecaptureInputs)
    \/ CaptureLead(1, RecaptureInputs)
    \/ SessionEnd(1, RecaptureInputs)
    \/ FinStopRecording(1, RecaptureInputs)
    \/ FinBillingRead(1)
    \/ FinBillingWrite(1)
    \/ FinLeadUpdate(1)
    \/ FinCallLogUpdate(1)
    \/ FinCleanup(1)

RecaptureSpec == Init /\ [][NextRecapture]_vars

\* C23: the captured state of a call is that of one invocation of
\* capture_lead: the name, the equipment type and the intent its agent holds
\* are those of the lead whose id the agent and the call's entry hold.
C23_CaptureAtomic ==
    \A s \in Sessions :
        /\ agent[s].captured_lead_id # NoId =>
               /\ leads[agent[s].captured_lead_id].buyer_name = agent[s].caller_name
               /\ leads[agent[s].captured_lead_id].equipment_type =
                      agent[s].equipment_type
               /\ leads[agent[s].captured_lead_id].intent = agent[s].intent
        /\ (s \in DOMAIN active_calls /\ active_calls[s].lead_id # NoId) =>
               /\ active_calls[s].lead_id = agent[s].captured_lead_id
               /\ leads[active_calls[s].lead_id].buyer_name = agent[s].caller_name

\* ------------------------------------------------- calls side by side
\* Calls that run side by side on the line of one dealer, each through its
\* whole life; the first also uses the staff tools.
IsolationInputs ==
    [NarrowInputs EXCEPT !.dialed = {PhoneA},
                         !.durations = {61},
                         !.outcomes = {"ok"},
                         !.stops = {[url |-> "url", duration |-> 6]},
                         !.pins = {"1234", "9999"}]

NextIsolation ==
    \/ \E s \in Sessions :
          \/ Start(s, IsolationInputs)
          \/ CreateCallLog(s, IsolationInputs)
          \/ StartRecording(s, IsolationInputs)
          \/ SessionStart(s, IsolationInputs)
          \/ CaptureLead(s, IsolationInputs)
          \/ SessionEnd(s, IsolationInputs)
          \/ FinStopRecording(s, IsolationInputs)
          \/ FinBillingRead(s)
          \/ FinBillingWrite(s)
          \/ FinLeadUpdate(s)
          \/ FinCallLogUpdate(s)
          \/ FinCleanup(s)
    \/ VerifyStaffPin(1, IsolationInputs)
    \/ VerifyLogFailure(1)
    \/ VerifyUpdateAccess(1)
    \/ VerifyLogSuccess(1)
    \/ QueryInternalData(1, IsolationInputs)

IsolationSpec == Init /\ [][NextIsolation]_vars

\* What call s holds of its own: where it stands, its entry of active_calls
\* (lead id, egress id, call log id), its agent (captured fields,
\* authentication state), the values of its finally block, its tool in flight.
OwnState(s) ==
    << pc[s], caller_phone[s], dealer_id[s], dealer_voice_agent_id[s],
       IF s \in DOMAIN active_calls THEN <<active_calls[s]>> ELSE <<>>,
       agent[s], fin[s], tool[s] >>

JustAnswered(s, messages) ==
    /\ reply'[s] # reply[s]
    /\ reply'[s].tool = "verify_staff_pin"
    /\ reply'[s].message \in messages

\* C25: an attempt that fails for its PIN or for its name adds one to the
\* failed attempts of a credential of the dealer of the line: of one with the
\* PIN given, when the name did not match.
C25_FailureCounted ==
    [][\A s \in Sessions :
          JustAnswered(s, {MsgInvalidPin, MsgNameMismatch}) =>
             \E id \in StaffIds :
                /\ staff_rows[id].dealer_id = dealer_id[s]
                /\ reply'[s].message = MsgNameMismatch =>
                       id \in CredentialsOf(dealer_id[s], reply'[s].pin)
                /\ dealer_staff'[id].failed_attempts =
                       dealer_staff[id].failed_attempts + 1]_vars

\* C26: a successful authentication sets the failed attempts of the matched
\* credential to 0, adds exactly one to its access count and stamps its last
\* access; the credential becomes the authenticated staff of the call.
C26_SuccessCounted ==
    [][\A s \in Sessions :
          /\ (tool[s].step = "update_access" /\ tool'[s].step = "log_success") =>
                /\ dealer_staff'[tool[s].staff].failed_attempts = 0
                /\ dealer_staff'[tool[s].staff].access_count =
                       dealer_staff[tool[s].staff].access_count + 1
                /\ dealer_staff'[tool[s].staff].last_access_at = now
          /\ JustAnswered(s, {MsgGranted}) =>
                /\ agent'[s].is_staff_authenticated
                /\ agent'[s].authenticated_staff = reply'[s].picked
                /\ reply'[s].picked \in
                       Candidates(dealer_id[s], reply'[s].name, reply'[s].pin)]_vars

\* ---------------------------------------------------- the access log
\* verify_staff_pin of call s has just returned from a step that logs.
LoggedReturn(s, steps) ==
    /\ tool[s].step \in steps
    /\ tool'[s].name = "none"

\* The step has appended one row to the access log, with these marks.
AppendedOne(auth_success, staff_id) ==
    /\ Len(access_logs') = Len(access_logs) + 1
    /\ SubSeq(access_logs', 1, Len(access_logs)) = access_logs
    /\ access_logs'[Len(access_logs')].auth_success = auth_success
    /\ access_logs'[Len(access_logs')].staff_id = staff_id

\* No step changes or removes a row of the access log.
AppendOnly ==
    /\ Len(access_logs') >= Len(access_logs)
    /\ SubSeq(access_logs', 1, Len(access_logs)) = access_logs

\* C27 as stated: every attempt with a wrong PIN or a name that does not
\* match appends exactly one unsuccessful row without staff id, every
\* attempt that matches appends exactly one successful row with the staff id,
\* and no row is changed or removed.
C27_AsWritten ==
    [][/\ AppendOnly
       /\ \A s \in Sessions :
             /\ LoggedReturn(s, {"log_invalid_pin", "log_name_mismatch"}) =>
                    AppendedOne(FALSE, None)
             /\ LoggedReturn(s, {"log_success"}) =>
                    AppendedOne(TRUE, tool[s].staff)]_vars

\* C27: no row of the access log is changed or removed.  An attempt that is
\* answered as a wrong PIN or as a name mismatch has appended exactly one
\* unsuccessful row without staff id; an attempt that is granted has appended
\* exactly one successful row with the id of the authenticated staff; an
\* attempt whose log row the store refuses is answered as trouble and has
\* appended nothing.
C27_LogAudits ==
    [][/\ AppendOnly
       /\ \A s \in Sessions :
             /\ LoggedReturn(s, {"log_invalid_pin", "log_name_mismatch"}) =>
                    IF reply'[s].message \in {MsgInvalidPin, MsgNameMismatch}
                    THEN AppendedOne(FALSE, None)
                    ELSE reply'[s].message = MsgTrouble /\ access_logs' = access_logs
             /\ LoggedReturn(s, {"log_success"}) =>
                    IF reply'[s].message = MsgGranted
                    THEN AppendedOne(TRUE, agent'[s].authenticated_staff)
                    ELSE reply'[s].message = MsgTrouble /\ access_logs' = access_logs]_vars

\* A call has been denied once and granted once: the log holds the
\* unsuccessful row without staff id, then the successful row of the staff.
C27_Witness ==
    /\ Len(access_logs) = 2
    /\ ~access_logs[1].auth_success
    /\ access_logs[1].staff_id = None
    /\ access_logs[2].auth_success
    /\ access_logs[2].staff_id = "st1"
    /\ reply[1].message = MsgGranted

\* ------------------------------------------- internal queries on their own
PermissionInit ==
    /\ CallInit
    /\ StaffInit
    /\ lookup = LookupBlank
    /\ \E rows \in InternalListings, staff1 \in StaffFlags, staff2 \in StaffFlags,
          query_type \in {"inventory", "pricing"}, query \in {None, "L1", "Lx"},
          strict \in BOOLEAN :
         answer = [AnswerBlank EXCEPT
                      !.rows = rows, !.staff1 = staff1, !.staff2 = staff2,
                      !.query_type = query_type, !.query = query,
                      !.strict = strict]

\* Two authenticated staff members of the dealer ask the same query.
AskBoth ==
    /\ ~answer.done
    /\ answer' = [answer EXCEPT
           !.result1 = InternalAnswer(answer.staff1, answer.rows,
                                      answer.query_type, answer.query,
                                      answer.strict),
           !.result2 = InternalAnswer(answer.staff2, answer.rows,
                                      answer.query_type, answer.query,
                                      answer.strict),
           !.done = TRUE]
    /\ UNCHANGED <<callVars, storeVars, effects, end_signals, captured,
                   last_tool, lookup, authVars>>

PermissionSpec == PermissionInit /\ [][AskBoth]_vars

\* The listings a result tells of, in its order.
RecordsOf(result) == [i \in 1..Len(result.lines) |-> result.lines[i].id]

\* What a result tells stays within what the flags of `staff` permit.
WithinFlags(staff, result) ==
    \A i \in 1..Len(result.lines) :
        /\ "cost" \in result.lines[i].fields => staff.can_view_costs
        /\ result.lines[i].fields \cap {"margin", "min_price"} # {} =>
               staff.can_view_margins

\* C28: two staff members of a dealer who ask the same inventory or pricing
\* query are told of the same listings, whatever their permission flags; the
\* cost of a listing is told only to one with can_view_costs, its margin
\* only to one with can_view_margins.
C28_FlagsGateFieldsOnly ==
    answer.done =>
        /\ RecordsOf(answer.result1) = RecordsOf(answer.result2)
        /\ answer.result1.message = answer.result2.message
        /\ answer.query_type = "inventory" =>
               RecordsOf(answer.result1) =
                   [i \in 1..Len(answer.rows) |-> answer.rows[i].id]
        /\ WithinFlags(answer.staff1, answer.result1)
        /\ WithinFlags(answer.staff2, answer.result2)

\* One staff member with both flags and one with neither have asked for the
\* inventory: both are told of two listings, the first of them with cost and
\* margin, the second with neither.
C28_Witness ==
    /\ answer.done
    /\ answer.query_type = "inventory"
    /\ answer.staff1 = [can_view_costs |-> TRUE, can_view_margins |-> TRUE]
    /\ answer.staff2 = [can_view_costs |-> FALSE, can_view_margins |-> FALSE]
    /\ Len(answer.result1.lines) = 2
    /\ Len(answer.result2.lines) = 2
    /\ {"cost", "margin"} \subseteq answer.result1.lines[1].fields
    /\ answer.result2.lines[1].fields \cap {"cost", "margin"} = {}

\* ------------------------------------------------------ inactive dealers
\* Call s has no dealer: none in the session, in its entry of active_calls,
\* in its call log, and nothing was billed.
HandledAsGlobal(s) ==
    /\ dealer_id[s] = None /\ dealer_voice_agent_id[s] = None
    /\ ~agent[s].staff_auth_tools
    /\ s \in DOMAIN active_calls =>
           /\ active_calls[s].dealer_id = None
           /\ active_calls[s].dealer_voice_agent_id = None
    /\ s \in DOMAIN call_logs =>
           /\ call_logs[s].dealer_id = None
           /\ call_logs[s].dealer_voice_agent_id = None
    /\ effects[s].increment_calls = 0
    /\ minutes_used = MinutesUsedInit

\* C29 as written: a call to the number of a dealer voice agent that is not
\* active has no dealer, bills nobody, and none of its leads has an owner.
C29_AsWritten ==
    /\ lookup.done => lookup.result = None
    /\ \A s \in Sessions :
        pc[s] # "idle" =>
            /\ HandledAsGlobal(s)
            /\ \A id \in LeadsOf(s) : leads[id].user_id = None

\* C29: the row that is not active is never what a call resolves to, in the
\* form the row carries or in the other national form: a call to its number
\* has no dealer and no dealer voice agent in the session, in active_calls or
\* in the call log, gets no staff tools, bills nobody, and the line gives none
\* of its leads an owner: a lead's owner is the owner of the listing it refers
\* to when that listing is found, and nobody otherwise.
C29_InactiveNeverResolved ==
    /\ lookup.done => lookup.result = None
    /\ \A s \in Sessions :
        pc[s] # "idle" =>
            /\ HandledAsGlobal(s)
            /\ \A id \in LeadsOf(s) :
                  leads[id].user_id =
                      IF leads[id].listing_id \in ListingIds
                      THEN listings[leads[id].listing_id].user_id ELSE None

\* A call to the inactive number in its other national form has ended after
\* storing a lead without a listing: the lead has no owner and nothing was
\* billed.
C29_Witness ==
    /\ lookup.done
    /\ lookup.phone_number = PhoneInactiveAlt
    /\ lookup.result = None
    /\ pc[1] = "done"
    /\ fin[1].dealer_voice_agent_id = None
    /\ LeadsOf(1) = {1}
    /\ 1 \in DOMAIN leads
    /\ leads[1].listing_id = None
    /\ leads[1].user_id = None
    /\ 1 \in DOMAIN call_logs
    /\ call_logs[1].dealer_id = None

\* ------------------------------------------------------ the final duration
\* C30: when the finally block passes its stop of the recording, the duration
\* of the call is the one stop_recording returned if it returned one, whatever
\* its value, and the elapsed time of the session otherwise (no egress id, a
\* stop that failed, a stop without a duration); the minutes of the call are
\* that duration rounded up, and no less than 1.
C30_StopDurationAuthoritative ==
    [][\A s \in Sessions :
          (pc[s] = "fin_stop_recording" /\ pc'[s] = "fin_billing") =>
              /\ fin'[s].call_duration =
                     IF fin'[s].recorded_duration # NoDuration
                     THEN fin'[s].recorded_duration
                     ELSE fin[s].call_duration
              /\ fin'[s].call_minutes =
                     (IF CeilMinutes(fin'[s].call_duration) >= 1
                      THEN CeilMinutes(fin'[s].call_duration) ELSE 1)]_vars

\* ------------------------------------------------------ the stop of a recording
\* C31: the recording of a call is stopped at most once over the life of the
\* call, further end signals included; the stop leads on to the billing step
\* whatever stop_recording answers, and when it answers neither a URL nor a
\* duration (it failed), the call keeps the elapsed time of the session as
\* its duration, its minutes, and no recording URL.
C31_StopOnceNeverRaises ==
    [][\A s \in Sessions :
          /\ effects'[s].stop_recording <= 1
          /\ effects'[s].stop_recording # effects[s].stop_recording =>
                 /\ fin[s].egress_id # NoId
                 /\ pc'[s] = "fin_billing"
                 /\ (fin'[s].recorded_duration = NoDuration) =>
                        /\ fin'[s].call_duration = fin[s].call_duration
                        /\ fin'[s].call_minutes = fin[s].call_minutes
          /\ (pc[s] \in Finalizing /\ effects[s].stop_recording = 1
                /\ fin[s].recorded_duration = NoDuration
                /\ fin[s].recording_url = None) =>
                 /\ pc'[s] \in Finalizing \cup {"done"}
                 /\ fin'[s].call_duration = fin[s].call_duration
                 /\ fin'[s].recording_url = None]_vars

\* The stop of the recording of a call failed after a second end signal, and
\* the call is done: stopped once, the elapsed 61 seconds as its duration, 2
\* minutes, no recording URL.
C31_Witness ==
    /\ pc[1] = "done"
    /\ end_signals[1] = 2
    /\ effects[1].stop_recording = 1
    /\ fin[1].egress_id # NoId
    /\ fin[1].recorded_duration = NoDuration
    /\ fin[1].recording_url = None
    /\ fin[1].call_duration = 61
    /\ fin[1].call_minutes = 2

\* ------------------------------------------------------ no credentials
\* C32: without the credentials of the storage no egress is asked for, no call
\* has an egress id in active_calls or in its finally block, and no recording
\* is stopped.
C32_NoCredentialsNoRecording ==
    ~recording_enabled =>
        \A s \in Sessions :
            /\ effects[s].start_recording = 0
            /\ effects[s].stop_recording = 0
            /\ s \in DOMAIN active_calls => active_calls[s].egress_id = NoId
            /\ fin[s].egress_id = NoId
            /\ fin[s].recording_url = None

\* Without the credentials a call went through its conversation and its
\* finally block: it billed its dealer and is done, unrecorded.
C32_Witness ==
    /\ ~recording_enabled
    /\ pc[1] = "done"
    /\ effects[1].increment_calls = 1
    /\ effects[1].start_recording = 0
    /\ effects[1].stop_recording = 0
    /\ 1 \notin DOMAIN active_calls

\* ------------------------------------------------------ transcription
\* Call s has passed the step of its finally block that updates the call log.
PastCallLogStep(s) == pc[s] \in {"fin_cleanup", "done"}

\* C33 as written: the background job of a finalized call is scheduled exactly
\* when the call has a recording URL and a final duration of more than 5
\* seconds.
C33_AsWritten ==
    \A s \in Sessions :
        /\ ~PastCallLogStep(s) => effects[s].transcriptions = 0
        /\ PastCallLogStep(s) =>
               effects[s].transcriptions =
                   IF fin[s].recording_url # None /\ fin[s].call_duration > 5
                   THEN 1 ELSE 0

\* C33: the background job of a finalized call is scheduled, once, exactly
\* when the call has a call log id, a recording URL and a final duration of
\* more than 5 seconds; before the call log step of the finally block none is
\* scheduled.
C33_TranscriptionScheduled ==
    \A s \in Sessions :
        /\ ~PastCallLogStep(s) => effects[s].transcriptions = 0
        /\ PastCallLogStep(s) =>
               effects[s].transcriptions =
                   IF /\ fin[s].call_log_id # NoId
                      /\ fin[s].recording_url # None
                      /\ fin[s].call_duration > 5
                   THEN 1 ELSE 0

\* A recorded call of 6 seconds with a call log is done and its background
\* job was scheduled.
C33_Witness ==
    /\ pc[1] = "done"
    /\ fin[1].call_log_id # NoId
    /\ fin[1].recording_url = "url"
    /\ fin[1].call_duration = 6
    /\ effects[1].transcriptions = 1

\* A recorded call of 5 seconds with a call log is done and no background job
\* was scheduled.
C33_ShortWitness ==
    /\ pc[1] = "done"
    /\ fin[1].call_log_id # NoId
    /\ fin[1].recording_url = "url"
    /\ fin[1].call_duration = 5
    /\ effects[1].transcriptions = 0

\* ------------------------------------------------------ the background job
\* C34: the finally block does not wait for the background job: the step that
\* schedules it leaves it running and goes on to the cleanup, the cleanup
\* removes the entry of the call and ends the call whatever the job does, and
\* a step of the job, its failure included, changes nothing of the call, of
\* active_calls or of the finally block.
C34_JobDetached ==
    [][\A s \in Sessions :
          /\ effects'[s].transcriptions # effects[s].transcriptions =>
                 /\ effects'[s].job = "running"
                 /\ pc'[s] = "fin_cleanup"
          /\ (pc[s] = "fin_cleanup" /\ pc'[s] # pc[s]) =>
                 /\ pc'[s] = "done"
                 /\ s \notin DOMAIN active_calls'
                 /\ effects'[s].job = effects[s].job
          /\ (effects[s].job # "none" /\ effects'[s].job # effects[s].job) =>
                 /\ UNCHANGED <<callVars, storeVars>>
                 /\ effects' = [effects EXCEPT ![s].job = effects'[s].job]]_vars

\* A call is done and its entry removed while its background job still runs.
C34_Witness ==
    /\ pc[1] = "done"
    /\ 1 \notin DOMAIN active_calls
    /\ effects[1].job = "running"

\* A call is done and its background job has failed.
C34_FailedWitness ==
    /\ pc[1] = "done"
    /\ 1 \notin DOMAIN active_calls
    /\ effects[1].job = "failed"
    /\ effects[1].log_updates = 1

\* ------------------------------------------------------ no call log
\* The call log of call s could not be created: the caller's number is known,
\* the call is past create_call_log, and call_logs has no row of the call.
CreateFailed(s) ==
    /\ caller_phone[s] # None
    /\ pc[s] \notin {"idle", "create_call_log"}
    /\ s \notin DOMAIN call_logs

C36_CallLogCarriesSession ==
    [][\A s \in Sessions :
          (effects'[s].log_updates # effects[s].log_updates
             /\ call_logs' # call_logs) =>
              /\ call_logs'[s].status = "completed"
              /\ call_logs'[s].caller_name = agent[s].caller_name
              /\ call_logs'[s].interest = agent[s].interest
              /\ call_logs'[s].equipment_type = agent[s].equipment_type
              /\ call_logs'[s].intent = agent[s].intent
              /\ call_logs'[s].lead_id =
                     IF captured[s] > 0 THEN LeadId(s, captured[s])
                     ELSE NoId]_vars

\* ------------------------------------------------------ the staff flag
\* The agent of call s is authenticated as a staff member of the call's dealer.
AuthenticatedForDealer(s) ==
    agent[s].is_staff_authenticated =>
        /\ agent[s].authenticated_staff \in StaffIds
        /\ staff_rows[agent[s].authenticated_staff].dealer_id = dealer_id[s]

\* C37: no step takes the flag is_staff_authenticated of a call back, an
\* attempt that fails or meets a lock included, and whenever the flag is set
\* the call holds an authenticated staff member, who is of the call's dealer.
C37_AuthenticationMonotonic ==
    [][\A s \in Sessions :
          /\ agent[s].is_staff_authenticated => agent'[s].is_staff_authenticated
          /\ AuthenticatedForDealer(s)
          /\ AuthenticatedForDealer(s)']_vars

\* A call that was authenticated has been denied at a later attempt, on a
\* wrong PIN, and is authenticated still.
C37_Witness ==
    /\ reply[1].tool = "verify_staff_pin"
    /\ reply[1].was_authenticated
    /\ ~reply[1].granted
    /\ reply[1].message = MsgInvalidPin
    /\ agent[1].is_staff_authenticated
    /\ agent[1].authenticated_staff \in StaffIds

\* A call that was authenticated has met a lock at a later attempt and is
\* authenticated still.
C37_LockedWitness ==
    /\ reply[1].tool = "verify_staff_pin"
    /\ reply[1].was_authenticated
    /\ reply[1].message = MsgLocked
    /\ agent[1].is_staff_authenticated

\* ------------------------------------------------------ a denied attempt
\* verify_staff_pin of call s answers in this step, and not with a grant.
Denied(s) ==
    /\ reply'[s] # reply[s]
    /\ reply'[s].tool = "verify_staff_pin"
    /\ ~reply'[s].granted

\* C38: when verify_staff_pin answers without a grant, the authenticated
\* staff member of the call is who it was, and the row of the staff member
\* the attempt picked, if it picked one, has the access count the attempt
\* read from it.
C38_DeniedChangesNothing ==
    [][\A s \in Sessions :
          Denied(s) =>
              /\ agent'[s].authenticated_staff = agent[s].authenticated_staff
              /\ agent'[s].is_staff_authenticated = agent[s].is_staff_authenticated
              /\ dealer_staff' = dealer_staff
              /\ tool[s].staff # None =>
                     dealer_staff'[tool[s].staff].access_count =
                         tool[s].access_count]_vars

\* ------------------------------------------------------ the main line
\* What the staff tools answer on a line without staff tools.
NotAvailableAnswer(r) ==
    \/ r.tool = "none"
    \/ r.tool = "verify_staff_pin" /\ r.message = MsgNoStaffLine
    \/ r.tool = "query_internal_data" /\ r.message = MsgNotAvailable

\* C39: on a call without a dealer, verify_staff_pin and query_internal_data
\* answer that the feature is not available for the line and no more: no
\* request to the store is begun, no row of dealer_staff changes, no access
\* log row is written, no data is read, and the call is never authenticated.
C39_MainLineNoStaffTools ==
    [][\A s \in Sessions :
          (dealer_id[s] = None /\ pc[s] = "active") =>
              /\ NotAvailableAnswer(reply'[s])
              /\ ~reply'[s].granted /\ ~reply'[s].data_read
              /\ tool'[s] = ToolIdle
              /\ dealer_staff' = dealer_staff
              /\ access_logs' = access_logs
              /\ ~agent'[s].is_staff_authenticated
              /\ agent'[s].authenticated_staff = None]_vars

\* A call without a dealer has asked for verify_staff_pin and then for
\* query_internal_data, and was told that internal data is not available for
\* the line.
C39_Witness ==
    /\ dealer_id[1] = None
    /\ pc[1] = "active"
    /\ attempts[1] = 2
    /\ reply[1].tool = "query_internal_data"
    /\ reply[1].message = MsgNotAvailable
    /\ access_logs = <<>>
    /\ ~agent[1].is_staff_authenticated

\* ------------------------------------------------------ a disabled agent
\* C40: a call that meets settings with is_active false returns from
\* entrypoint and has done nothing: no call log row, no entry in active_calls,
\* no egress asked for, no agent and no session, no finally block, no accrual,
\* no update of a lead or of a call log, no lead; when it is the only call,
\* the store and active_calls are as they were before it.
C40_DisabledNoEffects ==
    \A s \in Sessions :
        pc[s] = "returned" =>
            /\ s \notin DOMAIN call_logs
            /\ s \notin DOMAIN active_calls
            /\ effects[s] = EffectsBlank
            /\ agent[s] = AgentBlank
            /\ fin[s] = FinBlank
            /\ captured[s] = 0
            /\ end_signals[s] = 0
            /\ last_tool[s] = ToolBlank
            /\ \A id \in DOMAIN leads : leads[id].call_sid # s
            /\ (\A t \in Sessions \ {s} : pc[t] = "idle") =>
                   /\ minutes_used = MinutesUsedInit
                   /\ leads = <<>>
                   /\ call_logs = <<>>
                   /\ active_calls = <<>>

\* A call to the main line has met global settings that are not active and
\* has returned.
C40_Witness ==
    /\ pc[1] = "returned"
    /\ 1 \notin DOMAIN active_calls
    /\ 1 \notin DOMAIN call_logs
    /\ effects[1] = EffectsBlank

====
